---- MODULE Spec2Model ----
(***************************************************************************)
(* Library catalogue (Django application migrationsdb): the access gates   *)
(* of decorators.py, the ownership transfer views, the CRUD views and the  *)
(* external import of views.py, over the tables of models.py.              *)
(*                                                                         *)
(* A request is handled by one worker of the pool (a member of Procs).     *)
(* Nothing in views.py opens a transaction around add_books_to_library or  *)
(* remove_books_from_library, so their SELECT and their UPDATE are         *)
(* separate steps that other requests interleave with; the statements of   *)
(* import_external_book are separate steps inside one transaction.  The    *)
(* other views are taken one request at a time, a view in one step.        *)
(***************************************************************************)
EXTENDS Integers, Sequences, FiniteSets, TLC

VARIABLES users, auth_users, authors, genres, books, seq, req

vars == <<users, auth_users, authors, genres, books, seq, req>>
\* the rows of the tables; seq holds the last id each table handed out, which is
\* not content of the catalogue
store == <<users, auth_users, authors, genres, books>>

(***************************************************************************)
(* Bounds of the model.                                                    *)
(***************************************************************************)
NumUsers == 2
NumBooks == 2
NumProcs == 2
MaxIds == 2
MaxNew == 1
MaxCodes == 2
MaxTags == 6

UserIds == 1..NumUsers
BookIds == 1..NumBooks
Procs == 1..NumProcs

\* books.owner is nullable: 0 stands for NULL
NoOwner == 0
\* users.auth_user is nullable: 0 stands for NULL
NoAuthUser == 0
\* books.isbn is nullable
NoIsbn == "NULL"

Titles == <<"Dune", "Emma", "Ulises", "Rayuela">>
TitleOf(b) == Titles[((b - 1) % Len(Titles)) + 1]

(***************************************************************************)
(* Dates are day numbers counted from 1900-01-01.                          *)
(***************************************************************************)
LeapDaysBefore(y) == ((y - 1) \div 4) - ((y - 1) \div 100) + ((y - 1) \div 400)
\* datetime.date(y, 1, 1)
date(y) == 365 * (y - 1900) + LeapDaysBefore(y) - LeapDaysBefore(1900)
\* date.today(), on the day the requests are served
Today == date(2026)

(***************************************************************************)
(* Strings, with the methods of str the forms and the import use.          *)
(***************************************************************************)
Chars(s) == {SubSeq(s, i, i) : i \in 1..Len(s)}
Digits == Chars("0123456789")
LowerCase == "abcdefghijklmnopqrstuvwxyz"
UpperCase == "ABCDEFGHIJKLMNOPQRSTUVWXYZ"
Letters == Chars(LowerCase) \cup Chars(UpperCase)
Whitespace == {" "}

\* str.isdigit(), str.isalpha(), str.isalnum(): false for the empty string
isdigit(s) == s # "" /\ Chars(s) \subseteq Digits
isalpha(s) == s # "" /\ Chars(s) \subseteq Letters
isalnum(s) == s # "" /\ Chars(s) \subseteq (Letters \cup Digits)

\* s.replace(c, ""): every occurrence of the character c removed
RECURSIVE remove(_, _)
remove(s, c) ==
  IF s = "" THEN ""
  ELSE (IF SubSeq(s, 1, 1) = c THEN "" ELSE SubSeq(s, 1, 1)) \o remove(SubSeq(s, 2, Len(s)), c)

\* s.lstrip() and s.strip()
RECURSIVE lstrip(_)
lstrip(s) ==
  IF s # "" /\ SubSeq(s, 1, 1) \in Whitespace THEN lstrip(SubSeq(s, 2, Len(s))) ELSE s
RECURSIVE strip(_)
strip(s) ==
  LET t == lstrip(s) IN
    IF t # "" /\ SubSeq(t, Len(t), Len(t)) \in Whitespace THEN strip(SubSeq(t, 1, Len(t) - 1))
    ELSE t

\* one character in lower case and in upper case
lowerchar(c) ==
  IF \E i \in 1..Len(UpperCase) : SubSeq(UpperCase, i, i) = c
    THEN LET i == CHOOSE i \in 1..Len(UpperCase) : SubSeq(UpperCase, i, i) = c
         IN SubSeq(LowerCase, i, i)
    ELSE c
upperchar(c) ==
  IF \E i \in 1..Len(LowerCase) : SubSeq(LowerCase, i, i) = c
    THEN LET i == CHOOSE i \in 1..Len(LowerCase) : SubSeq(LowerCase, i, i) = c
         IN SubSeq(UpperCase, i, i)
    ELSE c
\* s.lower() and s.upper()
RECURSIVE lower(_)
lower(s) == IF s = "" THEN "" ELSE lowerchar(SubSeq(s, 1, 1)) \o lower(SubSeq(s, 2, Len(s)))
RECURSIVE upper(_)
upper(s) == IF s = "" THEN "" ELSE upperchar(SubSeq(s, 1, 1)) \o upper(SubSeq(s, 2, Len(s)))

\* s[:n]
prefix(s, n) == SubSeq(s, 1, IF Len(s) < n THEN Len(s) ELSE n)

\* sub in s
contains(s, sub) == \E i \in 1..(Len(s) - Len(sub) + 1) : SubSeq(s, i, i + Len(sub) - 1) = sub

\* s.split(): the words of s, separated by whitespace
RECURSIVE split(_)
split(s) ==
  LET t == lstrip(s) IN
    IF t = "" THEN <<>>
    ELSE LET ends == {i \in 1..Len(t) : SubSeq(t, i, i) \in Whitespace}
             n == IF ends = {} THEN Len(t)
                  ELSE (CHOOSE i \in ends : \A j \in ends : i <= j) - 1
         IN <<SubSeq(t, 1, n)>> \o split(SubSeq(t, n + 1, Len(t)))

\* " ".join(words)
RECURSIVE join(_)
join(words) ==
  IF words = <<>> THEN ""
  ELSE IF Len(words) = 1 THEN words[1]
  ELSE words[1] \o " " \o join(Tail(words))

(***************************************************************************)
(* Identity and roles.  request.user is either anonymous or an             *)
(* authenticated identity with an id, the superuser flag, its own          *)
(* permissions and its groups.  The library User linked to an identity is  *)
(* the users row whose auth_user is that identity.                         *)
(***************************************************************************)
Groups == {"Administradores", "Bibliotecarios", "Lectores", "Invitados"}

CustomPerms == {"view_all_libraries", "manage_library", "generate_reports", "import_books"}

ModelPerms ==
  {"add_user", "change_user", "delete_user", "view_user",
   "add_book", "change_book", "delete_book", "view_book",
   "add_author", "change_author", "delete_author", "view_author",
   "add_genre", "change_genre", "delete_genre", "view_genre"}

Perms == CustomPerms \cup ModelPerms

\* groups_config of the command setup_initial_groups
GroupPermissions(g) ==
  CASE g = "Administradores" -> Perms
    [] g = "Bibliotecarios" -> Perms \ {"add_user", "change_user", "delete_user"}
    [] g = "Lectores" -> {"view_book", "view_author", "view_genre"}
    [] g = "Invitados" -> {"view_book", "view_author", "view_genre"}
    [] OTHER -> {}

\* request.user of a visitor who has not logged in
Anonymous == [auth |-> FALSE, id |-> 0, su |-> FALSE, perms |-> {}, groups |-> {}]

\* request.user of the login i: the row of auth_users as the request loads it
Session(i) ==
  [auth |-> TRUE, id |-> i, su |-> auth_users[i].su, perms |-> auth_users[i].perms,
   groups |-> auth_users[i].groups]

Sessions == {Anonymous} \cup {Session(i) : i \in DOMAIN auth_users}

\* request.user.has_perm(perm): superuser, own permission or a group's permission
HasPerm(a, perm) ==
  a.auth /\ (a.su \/ perm \in a.perms \/ \E g \in a.groups : perm \in GroupPermissions(g))

\* request.user.groups.filter(name__in=names).exists()
InGroups(a, names) == a.groups \cap names # {}

\* request.user.user: the users row linked to the identity, 0 when there is none
\* (hasattr(request.user, 'user') is then false)
LinkedUser(a) ==
  IF a.auth /\ \E u \in DOMAIN users : users[u].auth_user = a.id
    THEN CHOOSE u \in DOMAIN users : users[u].auth_user = a.id
    ELSE 0

(***************************************************************************)
(* Responses.                                                              *)
(***************************************************************************)
NoResp == [kind |-> "none", to |-> "", msgs |-> <<>>, data |-> {}]
LoginRedirect == [kind |-> "redirect", to |-> "login", msgs |-> <<>>, data |-> {}]
NotFound == [kind |-> "404", to |-> "", msgs |-> <<>>, data |-> {}]
Forbidden == [kind |-> "403", to |-> "", msgs |-> <<>>, data |-> {}]
\* the answer to a request whose view raised an exception
ServerError == [kind |-> "500", to |-> "", msgs |-> <<>>, data |-> {}]
\* messages.<level>(request, text)
Msg(level, text) == [level |-> level, text |-> text]
Redirect(to, msgs) == [kind |-> "redirect", to |-> to, msgs |-> msgs, data |-> {}]
Render(template, data) == [kind |-> "render", to |-> template, msgs |-> <<>>, data |-> data]

\* a worker of the pool that handles no request
Idle == [view |-> "none", pc |-> "idle"]
Free(p) == req[p] = Idle

\* a request answered before any loop of its view started
Answer(view, a, target, method, resp) ==
  [view |-> view, pc |-> "done", actor |-> a, target |-> target, method |-> method,
   resp |-> resp]

\* the response is sent and the worker returns to the pool
Respond(p) ==
  /\ req[p].pc = "done"
  /\ req' = [req EXCEPT ![p] = Idle]
  /\ UNCHANGED <<store, seq>>

(***************************************************************************)
(* decorators.py                                                           *)
(***************************************************************************)
AccessDenied ==
  Redirect("home", <<Msg("error", "No tienes permisos para acceder a esta biblioteca.")>>)
ManagementDenied ==
  Redirect("home", <<Msg("error", "No tienes permisos para gestionar bibliotecas.")>>)

\* library_access_required that lets every identity with a linked user through,
\* whoever the target is
library_access_required_any_linked(a, user_id) ==
  IF ~a.auth THEN "login"
  ELSE IF user_id \notin DOMAIN users THEN "404"
  ELSE IF HasPerm(a, "view_all_libraries") \/ InGroups(a, {"Administradores", "Bibliotecarios"})
    THEN "view"
  ELSE IF LinkedUser(a) # 0 THEN "view"
  ELSE "denied"

\* library_management_required that lets every reader through
library_management_required_readers(a) ==
  IF ~a.auth THEN "login"
  ELSE IF HasPerm(a, "manage_library")
          \/ InGroups(a, {"Administradores", "Bibliotecarios", "Lectores"})
    THEN "view"
  ELSE "denied"

\* library_access_required that only asks for a login and a target that exists
library_access_required_logged_in(a, user_id) ==
  IF ~a.auth THEN "login"
  ELSE IF user_id \notin DOMAIN users THEN "404"
  ELSE "view"

\* library_access_required: "login" (login_required), "404" (get_object_or_404),
\* "view" (the view runs) or "denied"
library_access_required(a, user_id) ==
  IF ~a.auth THEN "login"
  ELSE IF user_id \notin DOMAIN users THEN "404"
  ELSE IF HasPerm(a, "view_all_libraries") \/ InGroups(a, {"Administradores", "Bibliotecarios"})
    THEN "view"
  ELSE IF LinkedUser(a) # 0 /\ LinkedUser(a) = user_id THEN "view"
  ELSE "denied"

\* library_management_required: "login", "view" or "denied"
library_management_required(a) ==
  IF ~a.auth THEN "login"
  ELSE IF HasPerm(a, "manage_library") \/ InGroups(a, {"Administradores", "Bibliotecarios"})
    THEN "view"
  ELSE "denied"

\* the response of a request the access gate does not let through
AccessGateResponse(g) ==
  CASE g = "login" -> LoginRedirect
    [] g = "404" -> NotFound
    [] OTHER -> AccessDenied

ManagementGateResponse(g) ==
  CASE g = "login" -> LoginRedirect
    [] OTHER -> ManagementDenied

(***************************************************************************)
(* views.py: the library of a user                                         *)
(***************************************************************************)
LibraryOf(u) == {b \in DOMAIN books : books[b].owner = u}

\* user_library: the books owned by the user
user_library(p, a, user_id) ==
  /\ Free(p)
  /\ LET g == library_access_required(a, user_id) IN
       req' = [req EXCEPT ![p] =
                 [view |-> "user_library", pc |-> "done", actor |-> a, target |-> user_id,
                  method |-> "GET",
                  resp |-> IF g = "view"
                             THEN Render("user_library.html", LibraryOf(user_id))
                             ELSE AccessGateResponse(g)]]
  /\ UNCHANGED <<store, seq>>

\* the redirect that ends a POST to add_books_to_library, with its messages
AddBooksDone(r) ==
  [r EXCEPT !.pc = "done", !.book = 0,
            !.resp = Redirect("user_library",
                       (IF r.books_added > 0
                          THEN <<Msg("success", "libro(s) agregado(s) a la biblioteca")>>
                          ELSE <<>>)
                       \o (IF r.books_not_available # <<>>
                             THEN <<Msg("warning", "Los siguientes libros ya no estan disponibles")>>
                             ELSE <<>>))]

\* the loop of add_books_to_library goes to the next id, or ends
AddBooksNext(r) ==
  IF r.i < Len(r.ids) THEN [r EXCEPT !.pc = "fetch", !.i = r.i + 1, !.book = 0]
  ELSE AddBooksDone(r)

\* add_books_to_library, up to the loop over the selected books
add_books_to_library(p, a, user_id, method, ids) ==
  /\ Free(p)
  /\ LET g == library_access_required(a, user_id)
         r == [view |-> "add_books_to_library", pc |-> "fetch", actor |-> a,
               target |-> user_id, method |-> method, ids |-> ids, i |-> 1, book |-> 0,
               books_added |-> 0, books_not_available |-> <<>>, resp |-> NoResp]
     IN req' = [req EXCEPT ![p] =
                  IF g # "view" THEN Answer("add_books_to_library", a, user_id, method,
                                            AccessGateResponse(g))
                  ELSE IF method # "POST"
                    THEN [r EXCEPT !.pc = "done",
                                   !.resp = Render("add_books_to_library.html", LibraryOf(NoOwner))]
                  ELSE IF ids = <<>> THEN AddBooksDone(r)
                  ELSE r]
  /\ UNCHANGED <<store, seq>>

\* book = get_object_or_404(Book, id=book_id); if book.owner is None ... else append
AddBooksFetch(p) ==
  /\ req[p].view = "add_books_to_library"
  /\ req[p].pc = "fetch"
  /\ LET r == req[p]
         id == r.ids[r.i]
     IN req' = [req EXCEPT ![p] =
                  IF id \notin DOMAIN books THEN [r EXCEPT !.pc = "done", !.resp = NotFound]
                  ELSE IF books[id].owner = NoOwner
                    THEN [r EXCEPT !.pc = "save", !.book = books[id]]
                  ELSE AddBooksNext([r EXCEPT !.books_not_available =
                                                Append(r.books_not_available, books[id].title)])]
  /\ UNCHANGED <<store, seq>>

\* Model.save(): every column of the row is written from the instance in memory
SaveBook(id, row) == [b \in DOMAIN books \cup {id} |-> IF b = id THEN row ELSE books[b]]

\* the save of add_books_to_library without the books_added += 1 of line 344
AddBooksSave_uncounted(p) ==
  /\ req[p].view = "add_books_to_library"
  /\ req[p].pc = "save"
  /\ LET r == req[p] IN
       /\ books' = SaveBook(r.ids[r.i], [r.book EXCEPT !.owner = r.target])
       /\ req' = [req EXCEPT ![p] = AddBooksNext(r)]
  /\ UNCHANGED <<users, auth_users, authors, genres, seq>>

\* the foreign keys of Book: the author exists, and the owner if there is one;
\* a save that breaks them raises IntegrityError
ForeignKeysHold(row) ==
  /\ row.author \in DOMAIN authors
  /\ row.owner = NoOwner \/ row.owner \in DOMAIN users

\* book.owner = user; book.save(); books_added += 1
AddBooksSave(p) ==
  /\ req[p].view = "add_books_to_library"
  /\ req[p].pc = "save"
  /\ LET r == req[p]
         row == [r.book EXCEPT !.owner = r.target]
     IN IF ForeignKeysHold(row)
          THEN /\ books' = SaveBook(r.ids[r.i], row)
               /\ req' = [req EXCEPT ![p] =
                            AddBooksNext([r EXCEPT !.books_added = r.books_added + 1])]
          ELSE /\ books' = books
               /\ req' = [req EXCEPT ![p] = [r EXCEPT !.pc = "done", !.resp = ServerError]]
  /\ UNCHANGED <<users, auth_users, authors, genres, seq>>

\* the redirect that ends a POST to remove_books_from_library
RemoveBooksDone(r) ==
  [r EXCEPT !.pc = "done", !.book = 0,
            !.resp = Redirect("user_library",
                              <<Msg("success", "Libros removidos de la biblioteca")>>)]

RemoveBooksNext(r) ==
  IF r.i < Len(r.ids) THEN [r EXCEPT !.pc = "fetch", !.i = r.i + 1, !.book = 0]
  ELSE RemoveBooksDone(r)

\* remove_books_from_library, up to the loop over the selected books
remove_books_from_library(p, a, user_id, method, ids) ==
  /\ Free(p)
  /\ LET g == library_management_required(a)
         r == [view |-> "remove_books_from_library", pc |-> "fetch", actor |-> a,
               target |-> user_id, method |-> method, ids |-> ids, i |-> 1, book |-> 0,
               resp |-> NoResp]
     IN req' = [req EXCEPT ![p] =
                  IF g # "view" THEN Answer("remove_books_from_library", a, user_id, method,
                                            ManagementGateResponse(g))
                  ELSE IF user_id \notin DOMAIN users
                    THEN Answer("remove_books_from_library", a, user_id, method, NotFound)
                  ELSE IF method # "POST"
                    THEN [r EXCEPT !.pc = "done",
                                   !.resp = Render("remove_books_from_library.html", LibraryOf(user_id))]
                  ELSE IF ids = <<>> THEN RemoveBooksDone(r)
                  ELSE r]
  /\ UNCHANGED <<store, seq>>

\* book = get_object_or_404(Book, id=book_id, owner=user)
RemoveBooksFetch(p) ==
  /\ req[p].view = "remove_books_from_library"
  /\ req[p].pc = "fetch"
  /\ LET r == req[p]
         id == r.ids[r.i]
     IN req' = [req EXCEPT ![p] =
                  IF id \in DOMAIN books /\ books[id].owner = r.target
                    THEN [r EXCEPT !.pc = "save", !.book = books[id]]
                  ELSE [r EXCEPT !.pc = "done", !.resp = NotFound]]
  /\ UNCHANGED <<store, seq>>

\* book.owner = None; book.save()
RemoveBooksSave(p) ==
  /\ req[p].view = "remove_books_from_library"
  /\ req[p].pc = "save"
  /\ LET r == req[p]
         row == [r.book EXCEPT !.owner = NoOwner]
     IN IF ForeignKeysHold(row)
          THEN /\ books' = SaveBook(r.ids[r.i], row)
               /\ req' = [req EXCEPT ![p] = RemoveBooksNext(r)]
          ELSE /\ books' = books
               /\ req' = [req EXCEPT ![p] = [r EXCEPT !.pc = "done", !.resp = ServerError]]
  /\ UNCHANGED <<users, auth_users, authors, genres, seq>>

(***************************************************************************)
(* views.py: books                                                         *)
(***************************************************************************)
\* @login_required @permission_required(perm, raise_exception=True)
permission_required(a, perm) ==
  IF ~a.auth THEN "login"
  ELSE IF ~HasPerm(a, perm) THEN "403"
  ELSE "view"

PermissionGateResponse(g) ==
  CASE g = "login" -> LoginRedirect
    [] OTHER -> Forbidden

\* BookForm.is_valid() for the book being edited (0: a new book): the fields of
\* Meta.fields, the unique isbn of the model, and clean()
BookFormValid(form, book_id) ==
  /\ Len(form.title) >= 2
  /\ form.author \in DOMAIN authors
  /\ form.owner = NoOwner \/ form.owner \in DOMAIN users
  /\ form.isbn # NoIsbn =>
       /\ Len(form.isbn) \in {10, 13}
       /\ \A b \in DOMAIN books : b # book_id => books[b].isbn # form.isbn
  /\ form.published_date <= Today
  /\ form.pages > 0
  /\ form.genres # {}
  /\ form.genres \subseteq DOMAIN genres

\* update_book: form.save() writes every field of the form, the owner included
update_book(p, a, book_id, method, form) ==
  /\ Free(p)
  /\ LET g == permission_required(a, "change_book")
         found == book_id \in DOMAIN books
         saved == g = "view" /\ found /\ method = "POST" /\ BookFormValid(form, book_id)
     IN /\ req' = [req EXCEPT ![p] =
                     [view |-> "update_book", pc |-> "done", actor |-> a, target |-> book_id,
                      method |-> method,
                      resp |-> IF g # "view" THEN PermissionGateResponse(g)
                               ELSE IF ~found THEN NotFound
                               ELSE IF saved
                                 THEN Redirect("list_book",
                                               <<Msg("success", "Libro actualizado exitosamente.")>>)
                               ELSE Render("book_form.html", {book_id})]]
        /\ books' = IF saved THEN [books EXCEPT ![book_id] = form] ELSE books
  /\ UNCHANGED <<users, auth_users, authors, genres, seq>>

(***************************************************************************)
(* views.py: users, authors, genres and books (CRUD).  Each of these views *)
(* runs its statements in autocommit with no other request between them    *)
(* in the specifications below, so a view is one step.                     *)
(***************************************************************************)
\* Model.save() of a new or an existing row; QuerySet.delete() of rows
Insert(table, id, row) == [x \in DOMAIN table \cup {id} |-> IF x = id THEN row ELSE table[x]]
Delete(table, ids) == [x \in DOMAIN table \ ids |-> table[x]]

\* EmailField: an address has a name, an @ and a domain
IsEmail(s) == \E i \in 2..(Len(s) - 1) : SubSeq(s, i, i) = "@"

\* UserForm.is_valid() for the user being edited (0: a new user)
UserFormValid(form, instance) ==
  LET first_name == strip(form.first_name)
      last_name == strip(form.last_name)
      email == strip(form.email)
      username == strip(form.username)
  IN /\ Len(first_name) >= 2
     /\ isalpha(remove(first_name, " "))
     /\ Len(last_name) >= 2
     /\ isalpha(remove(last_name, " "))
     /\ form.age >= 18
     /\ form.age <= 100
     /\ IsEmail(email)
     /\ \A u \in DOMAIN users : users[u].email = email => u = instance
     /\ form.create_auth_user =>
          /\ Len(username) >= 3
          /\ isalnum(remove(remove(username, "_"), "-"))
          /\ (\E i \in DOMAIN auth_users : auth_users[i].username = username)
               => /\ instance # 0
                  /\ users[instance].auth_user # NoAuthUser
                  /\ auth_users[users[instance].auth_user].username = username
          /\ Len(form.password) >= 6
          /\ form.password_confirm = form.password

\* the row of users that UserForm.save() writes
UserRow(form, auth_user) ==
  [auth_user |-> auth_user, first_name |-> strip(form.first_name),
   last_name |-> strip(form.last_name), age |-> form.age, email |-> strip(form.email)]

\* AuthUser.objects.create_user(username=..., ...): no group, no permission
NewAuthUser(username) == [username |-> username, su |-> FALSE, perms |-> {}, groups |-> {}]

\* User.create_auth_user(username, password) on the instance user: the login it
\* has, or a new one linked to it; create_user() of the auth model raises
\* IntegrityError on a username that is taken
create_auth_user_unguarded(user, logins, last, username) ==
  IF \E i \in DOMAIN logins : logins[i].username = username
    THEN [ok |-> FALSE, user |-> user, auth_users |-> logins, last |-> last,
          auth_user |-> NoAuthUser]
  ELSE [ok |-> TRUE, user |-> [user EXCEPT !.auth_user = last + 1],
        auth_users |-> Insert(logins, last + 1, NewAuthUser(username)), last |-> last + 1,
        auth_user |-> last + 1]

create_auth_user(user, logins, last, username) ==
  IF user.auth_user # NoAuthUser
    THEN [ok |-> TRUE, user |-> user, auth_users |-> logins, last |-> last,
          auth_user |-> user.auth_user]
  ELSE create_auth_user_unguarded(user, logins, last, username)

\* UserForm.save() of a valid form on the instance user: user.save(), then
\* create_auth_user when the form asks for a login and the user has none
UserFormSave(form, user) ==
  IF form.create_auth_user /\ user.auth_user = NoAuthUser /\ strip(form.username) # ""
       /\ form.password # ""
    THEN create_auth_user(user, auth_users, seq.auth_users, strip(form.username))
  ELSE [ok |-> TRUE, user |-> user, auth_users |-> auth_users, last |-> seq.auth_users,
        auth_user |-> user.auth_user]

\* create_user up to form.save(); when a login was asked for, the view goes on
\* with CreateUserAuth
create_user(p, a, method, form) ==
  /\ Free(p)
  /\ LET g == permission_required(a, "add_user")
         saved == g = "view" /\ method = "POST" /\ UserFormValid(form, 0)
         u == seq.users + 1
         made == UserFormSave(form, UserRow(form, NoAuthUser))
     IN /\ req' = [req EXCEPT ![p] =
                     IF g # "view"
                       THEN Answer("create_user", a, 0, method, PermissionGateResponse(g))
                     ELSE IF ~saved
                       THEN Answer("create_user", a, 0, method, Render("user_form.html", {}))
                     ELSE IF ~made.ok THEN Answer("create_user", a, u, method, ServerError)
                     ELSE IF form.create_auth_user
                       THEN [view |-> "create_user", pc |-> "auth", actor |-> a, target |-> u,
                             method |-> method, user |-> made.user,
                             username |-> strip(form.username), resp |-> NoResp]
                     ELSE Answer("create_user", a, u, method,
                                 Redirect("home",
                                   <<Msg("success", "Usuario creado exitosamente (solo biblioteca).")>>))]
        /\ users' = IF saved THEN Insert(users, u, made.user) ELSE users
        /\ auth_users' = IF saved THEN made.auth_users ELSE auth_users
        /\ seq' = [seq EXCEPT !.users = IF saved THEN u ELSE @,
                              !.auth_users = IF saved THEN made.last ELSE @]
  /\ UNCHANGED <<authors, genres, books>>

\* auth_user = user.create_auth_user(username, password); auth_user.groups.add(Lectores);
\* an exception is answered with a warning
CreateUserAuth(p) ==
  /\ req[p].view = "create_user"
  /\ req[p].pc = "auth"
  /\ LET r == req[p]
         made == create_auth_user(r.user, auth_users, seq.auth_users, r.username)
         done == made.ok /\ made.auth_user \in DOMAIN made.auth_users
     IN /\ req' = [req EXCEPT ![p] =
                     Answer("create_user", r.actor, r.target, r.method,
                            Redirect("home",
                              IF done
                                THEN <<Msg("success", "Usuario creado exitosamente con acceso al sistema.")>>
                              ELSE <<Msg("warning", "Usuario creado pero error al crear acceso al sistema")>>))]
        /\ users' = IF made.ok /\ made.user # r.user THEN Insert(users, r.target, made.user)
                    ELSE users
        /\ auth_users' = IF done
                           THEN [made.auth_users EXCEPT ![made.auth_user].groups =
                                                           @ \cup {"Lectores"}]
                           ELSE made.auth_users
        /\ seq' = [seq EXCEPT !.auth_users = made.last]
  /\ UNCHANGED <<authors, genres, books>>

\* update_user: UserForm.save() also creates a login for a user that has none
update_user(p, a, user_id, method, form) ==
  /\ Free(p)
  /\ LET g == permission_required(a, "change_user")
         found == user_id \in DOMAIN users
         saved == g = "view" /\ found /\ method = "POST" /\ UserFormValid(form, user_id)
         made == UserFormSave(form, UserRow(form, users[user_id].auth_user))
     IN /\ req' = [req EXCEPT ![p] =
                     Answer("update_user", a, user_id, method,
                            IF g # "view" THEN PermissionGateResponse(g)
                            ELSE IF ~found THEN NotFound
                            ELSE IF saved /\ ~made.ok THEN ServerError
                            ELSE IF saved
                              THEN Redirect("home",
                                            <<Msg("success", "Usuario actualizado exitosamente.")>>)
                            ELSE Render("user_form.html", {user_id}))]
        /\ users' = IF saved THEN [users EXCEPT ![user_id] = made.user] ELSE users
        /\ auth_users' = IF saved THEN made.auth_users ELSE auth_users
        /\ seq' = [seq EXCEPT !.auth_users = IF saved THEN made.last ELSE @]
  /\ UNCHANGED <<authors, genres, books>>

\* a delete_user that deletes the row of the user alone, with no cascade
delete_user_without_cascade(p, a, user_id, method) ==
  /\ Free(p)
  /\ LET g == permission_required(a, "delete_user")
         deleted == g = "view" /\ user_id \in DOMAIN users
     IN /\ req' = [req EXCEPT ![p] =
                     Answer("delete_user", a, user_id, method,
                            IF g # "view" THEN PermissionGateResponse(g)
                            ELSE IF ~deleted THEN NotFound
                            ELSE Redirect("home",
                                          <<Msg("success", "Usuario eliminado exitosamente.")>>))]
        /\ users' = IF deleted THEN Delete(users, {user_id}) ELSE users
  /\ UNCHANGED <<auth_users, authors, genres, books, seq>>

\* delete_user: the books the user owns are deleted with it (on_delete=CASCADE)
delete_user(p, a, user_id, method) ==
  /\ Free(p)
  /\ LET g == permission_required(a, "delete_user")
         deleted == g = "view" /\ user_id \in DOMAIN users
     IN /\ req' = [req EXCEPT ![p] =
                     Answer("delete_user", a, user_id, method,
                            IF g # "view" THEN PermissionGateResponse(g)
                            ELSE IF ~deleted THEN NotFound
                            ELSE Redirect("home",
                                          <<Msg("success", "Usuario eliminado exitosamente.")>>))]
        /\ users' = IF deleted THEN Delete(users, {user_id}) ELSE users
        /\ books' = IF deleted THEN Delete(books, {b \in DOMAIN books : books[b].owner = user_id})
                    ELSE books
  /\ UNCHANGED <<auth_users, authors, genres, seq>>

\* (date.today() - birth_date).days < 6570
AdultDays == 6570

\* AuthorForm.is_valid()
AuthorFormValid(form) ==
  /\ strip(form.first_name) # ""
  /\ Len(form.first_name) <= 100
  /\ Len(strip(form.first_name)) >= 2
  /\ strip(form.last_name) # ""
  /\ Len(form.last_name) <= 100
  /\ Len(strip(form.last_name)) >= 2
  /\ form.birth_date <= Today
  /\ Today - form.birth_date >= AdultDays
  /\ strip(form.nationality) # ""

AuthorRow(form) ==
  [first_name |-> strip(form.first_name), last_name |-> strip(form.last_name),
   birth_date |-> form.birth_date, nationality |-> strip(form.nationality)]

\* create_author, behind permission_required('migrationsdb.add_book')
create_author(p, a, method, form) ==
  /\ Free(p)
  /\ LET g == permission_required(a, "add_book")
         saved == g = "view" /\ method = "POST" /\ AuthorFormValid(form)
         id == seq.authors + 1
     IN /\ req' = [req EXCEPT ![p] =
                     Answer("create_author", a, 0, method,
                            IF g # "view" THEN PermissionGateResponse(g)
                            ELSE IF saved
                              THEN Redirect("list_authors",
                                            <<Msg("success", "Autor creado exitosamente.")>>)
                            ELSE Render("author_form.html", {}))]
        /\ authors' = IF saved THEN Insert(authors, id, AuthorRow(form)) ELSE authors
        /\ seq' = [seq EXCEPT !.authors = IF saved THEN id ELSE @]
  /\ UNCHANGED <<users, auth_users, genres, books>>

\* update_author, behind permission_required('migrationsdb.change_book')
update_author(p, a, author_id, method, form) ==
  /\ Free(p)
  /\ LET g == permission_required(a, "change_book")
         found == author_id \in DOMAIN authors
         saved == g = "view" /\ found /\ method = "POST" /\ AuthorFormValid(form)
     IN /\ req' = [req EXCEPT ![p] =
                     Answer("update_author", a, author_id, method,
                            IF g # "view" THEN PermissionGateResponse(g)
                            ELSE IF ~found THEN NotFound
                            ELSE IF saved
                              THEN Redirect("list_authors",
                                            <<Msg("success", "Autor actualizado exitosamente.")>>)
                            ELSE Render("author_form.html", {author_id}))]
        /\ authors' = IF saved THEN [authors EXCEPT ![author_id] = AuthorRow(form)] ELSE authors
  /\ UNCHANGED <<users, auth_users, genres, books, seq>>

\* delete_author, behind permission_required('migrationsdb.delete_book'): the
\* books of the author are deleted with it (on_delete=CASCADE)
delete_author(p, a, author_id, method) ==
  /\ Free(p)
  /\ LET g == permission_required(a, "delete_book")
         deleted == g = "view" /\ author_id \in DOMAIN authors
     IN /\ req' = [req EXCEPT ![p] =
                     Answer("delete_author", a, author_id, method,
                            IF g # "view" THEN PermissionGateResponse(g)
                            ELSE IF ~deleted THEN NotFound
                            ELSE Redirect("list_authors",
                                          <<Msg("success", "Autor eliminado exitosamente.")>>))]
        /\ authors' = IF deleted THEN Delete(authors, {author_id}) ELSE authors
        /\ books' = IF deleted
                      THEN Delete(books, {b \in DOMAIN books : books[b].author = author_id})
                      ELSE books
  /\ UNCHANGED <<users, auth_users, genres, seq>>

\* GenreForm.is_valid() for the genre being edited (0: a new genre)
GenreFormValid(form, instance) ==
  /\ strip(form.name) # ""
  /\ Len(form.name) <= 50
  /\ Len(strip(form.name)) >= 2
  /\ \A g \in DOMAIN genres : genres[g].name = strip(form.name) => g = instance

GenreRow(form) == [name |-> strip(form.name), description |-> strip(form.description)]

\* list_genres: no decorator
list_genres(p, a) ==
  /\ Free(p)
  /\ req' = [req EXCEPT ![p] =
               Answer("list_genres", a, 0, "GET", Render("genres_list.html", DOMAIN genres))]
  /\ UNCHANGED <<store, seq>>

\* delete_genre: no decorator; the links of books to the genre go with it
delete_genre(p, a, genre_id, method) ==
  /\ Free(p)
  /\ LET deleted == genre_id \in DOMAIN genres
     IN /\ req' = [req EXCEPT ![p] =
                     Answer("delete_genre", a, genre_id, method,
                            IF ~deleted THEN NotFound
                            ELSE Redirect("list_genres",
                                          <<Msg("success", "Genero eliminado exitosamente.")>>))]
        /\ genres' = IF deleted THEN Delete(genres, {genre_id}) ELSE genres
        /\ books' = IF deleted
                      THEN [b \in DOMAIN books |-> [books[b] EXCEPT !.genres = @ \ {genre_id}]]
                      ELSE books
  /\ UNCHANGED <<users, auth_users, authors, seq>>

\* JsonResponse(data, status=status)
JsonResponse(status, data) == [kind |-> "json", to |-> status, msgs |-> <<>>, data |-> data]
\* require_http_methods(["POST"])
MethodNotAllowed == [kind |-> "405", to |-> "", msgs |-> <<>>, data |-> {}]

\* the genre names that other requests have inserted and not yet committed: an
\* INSERT of the same name waits for the end of their transaction
PendingGenreNames(p) ==
  UNION {{req[q].tx.genres[g].name : g \in DOMAIN req[q].tx.genres} :
           q \in {q \in Procs \ {p} : req[q].view = "import_external_book"}}

\* create_genre: no decorator; a valid form is saved by GenreSave
create_genre(p, a, method, form) ==
  /\ Free(p)
  /\ req' = [req EXCEPT ![p] =
               IF method = "POST" /\ GenreFormValid(form, 0)
                 THEN [view |-> "create_genre", pc |-> "save", actor |-> a, target |-> 0,
                       method |-> method, row |-> GenreRow(form), resp |-> NoResp]
               ELSE Answer("create_genre", a, 0, method, Render("genre_form.html", {}))]
  /\ UNCHANGED <<store, seq>>

\* the unique index of Genre.name: another committed row has the name
NameTaken(name, id) == \E g \in DOMAIN genres : g # id /\ genres[g].name = name

\* a save of the genre on a table without the unique index
GenreSave_unconstrained(p) ==
  /\ req[p].view \in {"create_genre", "update_genre_api"}
  /\ req[p].pc = "save"
  /\ LET r == req[p]
         create == r.view = "create_genre"
         id == IF create THEN seq.genres + 1 ELSE r.target
     IN /\ req' = [req EXCEPT ![p] =
                     Answer(r.view, r.actor, r.target, r.method,
                            IF create
                              THEN Redirect("list_genres",
                                            <<Msg("success", "Genero creado exitosamente.")>>)
                            ELSE JsonResponse("200", {r.target}))]
        /\ genres' = Insert(genres, id, r.row)
        /\ seq' = [seq EXCEPT !.genres = IF create THEN id ELSE @]
  /\ UNCHANGED <<users, auth_users, authors, books>>

\* form.save() and serializer.save(): the INSERT or UPDATE of the genre.  It
\* waits for a transaction that holds the name, and fails with IntegrityError
\* on a name that another row has: create_genre does not catch it,
\* update_genre_api answers it with status 500
GenreSave(p) ==
  /\ req[p].view \in {"create_genre", "update_genre_api"}
  /\ req[p].pc = "save"
  /\ req[p].row.name \notin PendingGenreNames(p)
  /\ LET r == req[p]
         create == r.view = "create_genre"
         id == IF create THEN seq.genres + 1 ELSE r.target
     IN IF NameTaken(r.row.name, id)
          THEN /\ req' = [req EXCEPT ![p] =
                            Answer(r.view, r.actor, r.target, r.method,
                                   IF create THEN ServerError ELSE JsonResponse("500", {}))]
               /\ UNCHANGED <<genres, seq>>
          ELSE /\ req' = [req EXCEPT ![p] =
                            Answer(r.view, r.actor, r.target, r.method,
                                   IF create
                                     THEN Redirect("list_genres",
                                                   <<Msg("success", "Genero creado exitosamente.")>>)
                                   ELSE JsonResponse("200", {r.target}))]
               /\ genres' = Insert(genres, id, r.row)
               /\ seq' = [seq EXCEPT !.genres = IF create THEN id ELSE @]
  /\ UNCHANGED <<users, auth_users, authors, books>>

\* GenreSerializer(genre, data=data, partial=True).is_valid()
GenreSerializerValid(data, genre_id) ==
  /\ "name" \in DOMAIN data =>
       /\ strip(data.name) # ""
       /\ Len(data.name) <= 50
       /\ \A g \in DOMAIN genres : genres[g].name = strip(data.name) => g = genre_id

\* update_genre_api: POST only, login_required, has_perm('migrationsdb.change_genre');
\* the Http404 of a missing genre is caught by the except of the view; valid
\* data are saved by GenreSave
update_genre_api(p, a, genre_id, method, data) ==
  /\ Free(p)
  /\ LET allowed == method = "POST" /\ a.auth /\ HasPerm(a, "change_genre")
         saved == allowed /\ genre_id \in DOMAIN genres /\ GenreSerializerValid(data, genre_id)
     IN req' = [req EXCEPT ![p] =
                  IF saved
                    THEN [view |-> "update_genre_api", pc |-> "save", actor |-> a,
                          target |-> genre_id, method |-> method,
                          row |-> [name |-> IF "name" \in DOMAIN data THEN strip(data.name)
                                            ELSE genres[genre_id].name,
                                   description |-> IF "description" \in DOMAIN data
                                                     THEN strip(data.description)
                                                     ELSE genres[genre_id].description],
                          resp |-> NoResp]
                  ELSE Answer("update_genre_api", a, genre_id, method,
                              IF method # "POST" THEN MethodNotAllowed
                              ELSE IF ~a.auth THEN LoginRedirect
                              ELSE IF ~allowed THEN JsonResponse("403", {})
                              ELSE IF genre_id \notin DOMAIN genres THEN JsonResponse("500", {})
                              ELSE JsonResponse("200", {}))]
  /\ UNCHANGED <<store, seq>>

\* create_book: the owner of the form is dropped, a new book has no owner
create_book(p, a, method, form) ==
  /\ Free(p)
  /\ LET g == permission_required(a, "add_book")
         saved == g = "view" /\ method = "POST" /\ BookFormValid(form, 0)
         id == seq.books + 1
     IN /\ req' = [req EXCEPT ![p] =
                     Answer("create_book", a, 0, method,
                            IF g # "view" THEN PermissionGateResponse(g)
                            ELSE IF saved
                              THEN Redirect("list_book",
                                            <<Msg("success", "Libro creado exitosamente.")>>)
                            ELSE Render("book_form.html", {}))]
        /\ books' = IF saved THEN Insert(books, id, [form EXCEPT !.owner = NoOwner]) ELSE books
        /\ seq' = [seq EXCEPT !.books = IF saved THEN id ELSE @]
  /\ UNCHANGED <<users, auth_users, authors, genres>>

\* delete_book
delete_book(p, a, book_id, method) ==
  /\ Free(p)
  /\ LET g == permission_required(a, "delete_book")
         deleted == g = "view" /\ book_id \in DOMAIN books
     IN /\ req' = [req EXCEPT ![p] =
                     Answer("delete_book", a, book_id, method,
                            IF g # "view" THEN PermissionGateResponse(g)
                            ELSE IF ~deleted THEN NotFound
                            ELSE Redirect("list_book",
                                          <<Msg("success", "Libro eliminado exitosamente.")>>))]
        /\ books' = IF deleted THEN Delete(books, {book_id}) ELSE books
  /\ UNCHANGED <<users, auth_users, authors, genres, seq>>

(***************************************************************************)
(* services/openlibrary_service.py: the record of a book, from the         *)
(* provider's document.  A value the provider leaves out, null and 0 are   *)
(* all replaced by None (x or None): 0 stands for None in the year.        *)
(***************************************************************************)
NoYear == 0

\* a value of the provider's JSON: null, an integer or a string
Null == [kind |-> "null", int |-> 0, str |-> ""]
Num(n) == [kind |-> "int", int |-> n, str |-> ""]
Text(s) == [kind |-> "str", int |-> 0, str |-> s]
\* v or None: zero and the empty string are false
OrNone(v) == IF (v.kind = "int" /\ v.int = 0) \/ (v.kind = "str" /\ v.str = "") THEN Null ELSE v
NoPages == Null

\* str(v).replace("-", "").upper().strip()
CleanIsbn(v) == strip(upper(remove(v, "-")))
IsIsbn13(s) == Len(s) = 13 /\ isdigit(s)
IsIsbn10(s) ==
  /\ Len(s) = 10
  /\ isdigit(SubSeq(s, 1, 9))
  /\ (isdigit(SubSeq(s, 10, 10)) \/ SubSeq(s, 10, 10) = "X")

\* the first element of isbns, cleaned, that passes the test
FirstIsbn(isbns, Test(_)) ==
  LET hits == {i \in 1..Len(isbns) : Test(CleanIsbn(isbns[i]))}
  IN CleanIsbn(isbns[CHOOSE i \in hits : \A j \in hits : i <= j])

\* a _pick_isbn with one loop: the first candidate that is an ISBN of either length
_pick_isbn_single_pass(doc) ==
  LET Either(s) == IsIsbn13(s) \/ IsIsbn10(s) IN
    IF \E i \in 1..Len(doc.isbn) : Either(CleanIsbn(doc.isbn[i]))
      THEN FirstIsbn(doc.isbn, Either)
    ELSE NoIsbn

\* _pick_isbn: the first ISBN-13 of the document, else its first ISBN-10, else None
_pick_isbn(doc) ==
  IF \E i \in 1..Len(doc.isbn) : IsIsbn13(CleanIsbn(doc.isbn[i]))
    THEN FirstIsbn(doc.isbn, IsIsbn13)
  ELSE IF \E i \in 1..Len(doc.isbn) : IsIsbn10(CleanIsbn(doc.isbn[i]))
    THEN FirstIsbn(doc.isbn, IsIsbn10)
  ELSE NoIsbn

\* get_book_by_isbn, for the first document of the provider's answer
get_book_by_isbn(isbn, doc) ==
  [title |-> doc.title,
   authors |-> doc.author_name,
   year |-> doc.first_publish_year,
   isbn |-> IF _pick_isbn(doc) # NoIsbn THEN _pick_isbn(doc) ELSE isbn,
   pages |-> OrNone(doc.number_of_pages_median),
   subjects |-> doc.subject]

(***************************************************************************)
(* views.py: import_external_book, under @transaction.atomic.  The rows a  *)
(* request writes stay in its transaction (tx) until the view returns:     *)
(* the transaction is then committed, unless a statement of the database   *)
(* failed in it, in which case it is rolled back.  An exception that the   *)
(* except clause of the view catches does not leave the atomic block.      *)
(***************************************************************************)
NoTx == [authors |-> <<>>, genres |-> <<>>]

\* the record of the book, before the view has built it
NoBook ==
  [title |-> "", authors |-> <<>>, year |-> NoYear, isbn |-> NoIsbn, pages |-> NoPages,
   subjects |-> [list |-> TRUE, items |-> <<>>]]

\* the rows of a table as the request sees them: the committed rows and its own
Visible(table, pending) ==
  [x \in DOMAIN table \cup DOMAIN pending |-> IF x \in DOMAIN pending THEN pending[x] ELSE table[x]]

SearchRedirect(msgs) == Redirect("search_external_books", msgs)

\* except Exception as e: messages.error(...); return redirect('search_external_books')
ImportError(r) ==
  [r EXCEPT !.pc = "done", !.tx = NoTx,
            !.resp = SearchRedirect(r.resp.msgs \o <<Msg("error", "Error al importar")>>)]

\* book["authors"][0] if book["authors"] else "Autor Desconocido", stripped
AuthorName(book) ==
  strip(IF book.authors # <<>> THEN book.authors[1] ELSE "Autor Desconocido")

\* _split_author: (last_name, first_name)
_split_author(full_name) ==
  LET parts == split(strip(full_name)) IN
    IF parts = <<>> THEN <<"Desconocido", "Autor">>
    ELSE IF Len(parts) = 1 THEN <<parts[1], "">>
    ELSE <<parts[Len(parts)], join(SubSeq(parts, 1, Len(parts) - 1))>>

\* QuerySet.first(): the row with the least id, 0 when there is none
first(ids) == IF ids = {} THEN 0 ELSE CHOOSE i \in ids : \A j \in ids : i <= j

\* a lookup by ISBN that finds nothing
ExistingByIsbn_blind(isbn_clean) == first({b \in DOMAIN books : FALSE})

\* Book.objects.filter(isbn=isbn_clean).first()
ExistingByIsbn(isbn_clean) == first({b \in DOMAIN books : books[b].isbn = isbn_clean})

\* Book.objects.filter(title__iexact=title_clean,
\*                     author__first_name__icontains=<last word of the author name>).first()
ExistingByTitle(title_clean, author_name) ==
  LET words == split(author_name)
      token == IF author_name # "" THEN words[Len(words)] ELSE ""
  IN first({b \in DOMAIN books :
              /\ lower(books[b].title) = lower(title_clean)
              /\ contains(lower(authors[books[b].author].first_name), lower(token))})

\* the path converter <int:user_id> of redirect('user_library', user_id=owner_id)
IsIntParam(s) == isdigit(s)

\* int(owner_id) of a string of digits
RECURSIVE int(_)
int(s) ==
  IF s = "" THEN 0
  ELSE 10 * int(SubSeq(s, 1, Len(s) - 1))
       + (CHOOSE d \in 0..9 : SubSeq("0123456789", d + 1, d + 1) = SubSeq(s, Len(s), Len(s)))

\* import_external_book up to the duplicate check: the record of the book, from
\* the GET parameters or from the provider's answer
import_external_book(p, a, isbn, GET, answer) ==
  /\ Free(p)
  /\ LET r == [view |-> "import_external_book", pc |-> "dedup", actor |-> a, target |-> isbn,
               method |-> "GET", GET |-> GET, book |-> NoBook, isbn_clean |-> NoIsbn,
               title_clean |-> "", author |-> 0, genres |-> <<>>, tx |-> NoTx,
               resp |-> NoResp]
         title == strip(GET.title)
         author == strip(GET.author)
         typed == [title |-> title,
                   authors |-> IF author # "" THEN <<author>> ELSE <<"Autor Desconocido">>,
                   year |-> NoYear, isbn |-> NoIsbn, pages |-> NoPages,
                   subjects |-> [list |-> TRUE, items |-> <<>>]]
         found == get_book_by_isbn(isbn, answer.doc)
         Checked(book) ==
           [r EXCEPT !.book = book,
                     !.isbn_clean = IF book.isbn # NoIsbn /\ book.isbn # ""
                                      THEN prefix(book.isbn, 13) ELSE NoIsbn,
                     !.title_clean = prefix(IF book.title # "" THEN book.title ELSE "Sin titulo",
                                            200)]
     IN req' = [req EXCEPT ![p] =
                  IF isbn = "no-isbn"
                    THEN IF title = ""
                           THEN [r EXCEPT !.pc = "done",
                                          !.resp = SearchRedirect(
                                            <<Msg("error", "No se puede importar libro sin titulo.")>>)]
                           ELSE Checked(typed)
                  ELSE IF strip(remove(isbn, "-")) # "" /\ answer.kind = "error"
                    THEN ImportError(r)
                  ELSE IF strip(remove(isbn, "-")) = "" \/ answer.kind = "empty"
                    THEN [r EXCEPT !.pc = "done",
                                   !.resp = SearchRedirect(
                                     <<Msg("error", "Libro no encontrado en Open Library.")>>)]
                  ELSE Checked(found)]
  /\ UNCHANGED <<store, seq>>

\* the duplicate check: by ISBN, then by title and author
ImportDedup(p) ==
  /\ req[p].view = "import_external_book"
  /\ req[p].pc = "dedup"
  /\ LET r == req[p]
         by_isbn == IF r.isbn_clean # NoIsbn THEN ExistingByIsbn(r.isbn_clean) ELSE 0
         existing == IF by_isbn # 0 THEN by_isbn
                     ELSE ExistingByTitle(r.title_clean, AuthorName(r.book))
         told == [r EXCEPT !.resp.msgs = <<Msg("info", "El libro ya existe en el sistema.")>>]
     IN req' = [req EXCEPT ![p] =
                  IF existing = 0 THEN [r EXCEPT !.pc = "author"]
                  ELSE IF r.GET.owner_id = ""
                    THEN [told EXCEPT !.pc = "done", !.resp = Redirect("list_book", told.resp.msgs)]
                  ELSE IF IsIntParam(r.GET.owner_id)
                    THEN [told EXCEPT !.pc = "done",
                                      !.resp = Redirect("user_library", told.resp.msgs)]
                  ELSE ImportError(told)]
  /\ UNCHANGED <<store, seq>>

\* the transaction of the request is committed
Commit(r) ==
  /\ authors' = Visible(authors, r.tx.authors)
  /\ genres' = Visible(genres, r.tx.genres)

\* Author.objects.get_or_create(first_name=fn or "N/A", last_name=ln or "N/A", defaults=...);
\* get() raises MultipleObjectsReturned when several authors have these names, and
\* nothing is written yet then
ImportAuthor(p) ==
  /\ req[p].view = "import_external_book"
  /\ req[p].pc = "author"
  /\ LET r == req[p]
         names == _split_author(AuthorName(r.book))
         ln == IF names[1] # "" THEN names[1] ELSE "N/A"
         fn == IF names[2] # "" THEN names[2] ELSE "N/A"
         seen == Visible(authors, r.tx.authors)
         same == {x \in DOMAIN seen : seen[x].first_name = fn /\ seen[x].last_name = ln}
         id == seq.authors + 1
         row == [first_name |-> fn, last_name |-> ln, birth_date |-> date(1900),
                 nationality |-> "N/D"]
     IN /\ req' = [req EXCEPT ![p] =
                     IF Cardinality(same) > 1 THEN ImportError(r)
                     ELSE IF same # {} THEN [r EXCEPT !.pc = "genres", !.author = first(same)]
                     ELSE [r EXCEPT !.pc = "genres", !.author = id,
                                    !.tx.authors = Insert(r.tx.authors, id, row)]]
        /\ seq' = [seq EXCEPT !.authors = IF same = {} THEN id ELSE @]
  /\ UNCHANGED store

\* Genre.objects.get_or_create(name=str(s)[:50], defaults={"description": ""}) for
\* each of names in turn: the genres seen, the ids got and the last id handed out
RECURSIVE GetOrCreateGenres(_, _, _, _)
GetOrCreateGenres(names, pending, got, last) ==
  IF names = <<>> THEN [pending |-> pending, got |-> got, last |-> last]
  ELSE LET seen == Visible(genres, pending)
           name == prefix(Head(names), 50)
           same == {g \in DOMAIN seen : seen[g].name = name}
       IN IF same # {}
            THEN GetOrCreateGenres(Tail(names), pending, Append(got, first(same)), last)
            ELSE GetOrCreateGenres(Tail(names),
                                   Insert(pending, last + 1, [name |-> name, description |-> ""]),
                                   Append(got, last + 1), last + 1)

\* the loop over the subjects without the [:5] of line 550
ImportGenres_unsliced(p) ==
  /\ req[p].view = "import_external_book"
  /\ req[p].pc = "genres"
  /\ LET r == req[p]
         subjects == r.book.subjects
         done == GetOrCreateGenres(subjects.items, r.tx.genres, <<>>, seq.genres)
     IN IF ~subjects.list
          THEN /\ req' = [req EXCEPT ![p] = ImportError(r)]
               /\ Commit(r)
               /\ UNCHANGED seq
          ELSE /\ \A i \in 1..Len(subjects.items) :
                    prefix(subjects.items[i], 50) \notin PendingGenreNames(p)
               /\ req' = [req EXCEPT ![p] =
                            [r EXCEPT !.pc = "save", !.genres = done.got, !.tx.genres = done.pending]]
               /\ seq' = [seq EXCEPT !.genres = done.last]
               /\ UNCHANGED <<authors, genres>>
  /\ UNCHANGED <<users, auth_users, books>>

\* for s in (book.get("subjects") or [])[:5]: a value that is no list cannot be sliced
ImportGenres(p) ==
  /\ req[p].view = "import_external_book"
  /\ req[p].pc = "genres"
  /\ LET r == req[p]
         subjects == r.book.subjects
         names == SubSeq(subjects.items, 1, IF Len(subjects.items) < 5 THEN Len(subjects.items) ELSE 5)
         done == GetOrCreateGenres(names, r.tx.genres, <<>>, seq.genres)
     IN IF ~subjects.list
          THEN /\ req' = [req EXCEPT ![p] = ImportError(r)]
               /\ Commit(r)
               /\ UNCHANGED seq
          ELSE /\ \A i \in 1..Len(names) : prefix(names[i], 50) \notin PendingGenreNames(p)
               /\ req' = [req EXCEPT ![p] =
                            [r EXCEPT !.pc = "save", !.genres = done.got, !.tx.genres = done.pending]]
               /\ seq' = [seq EXCEPT !.genres = done.last]
               /\ UNCHANGED <<authors, genres>>
  /\ UNCHANGED <<users, auth_users, books>>

\* date(int(year), 1, 1) if isinstance(year, int) and 1 <= year <= 9999 else date(1900, 1, 1)
PubDate(year) == IF 1 <= year /\ year <= 9999 THEN date(year) ELSE date(1900)

\* int(book["pages"]) if str(book.get("pages", "")).isdigit() else 100
PageCount(pages) ==
  IF pages.kind = "int" /\ pages.int >= 0 THEN pages.int
  ELSE IF pages.kind = "str" /\ isdigit(pages.str) THEN int(pages.str)
  ELSE 100

\* User.objects.get(id=int(owner_id)), None when there is no such user
OwnerOf(owner_id) ==
  IF owner_id # "" /\ isdigit(owner_id) /\ int(owner_id) \in DOMAIN users
    THEN int(owner_id) ELSE NoOwner

\* the Book is inserted and linked to its genres, and the view returns: the
\* transaction is committed, or rolled back when the INSERT fails on the
\* unique ISBN or on the foreign key of the author
ImportSave(p) ==
  /\ req[p].view = "import_external_book"
  /\ req[p].pc = "save"
  /\ LET r == req[p]
         owner == OwnerOf(r.GET.owner_id)
         id == seq.books + 1
         new_book == [title |-> r.title_clean, author |-> r.author, owner |-> owner,
                      published_date |-> PubDate(r.book.year), isbn |-> r.isbn_clean,
                      pages |-> PageCount(r.book.pages),
                      genres |-> {r.genres[i] : i \in 1..Len(r.genres)}]
         clash == \/ r.isbn_clean # NoIsbn /\ \E b \in DOMAIN books : books[b].isbn = r.isbn_clean
                  \/ r.author \notin DOMAIN Visible(authors, r.tx.authors)
     IN /\ seq' = [seq EXCEPT !.books = id]
        /\ IF clash
             THEN /\ req' = [req EXCEPT ![p] = ImportError(r)]
                  /\ UNCHANGED <<authors, genres, books>>
             ELSE /\ req' = [req EXCEPT ![p] =
                               [r EXCEPT !.pc = "done", !.tx = NoTx,
                                         !.resp = Redirect(IF owner # NoOwner THEN "user_library"
                                                           ELSE "list_book",
                                                           <<Msg("success", "Libro importado")>>)]]
                  /\ Commit(r)
                  /\ books' = Insert(books, id, new_book)
  /\ UNCHANGED <<users, auth_users>>

(***************************************************************************)
(* views.py: register_view.  No decorator and no transaction: each         *)
(* statement is committed as it runs.                                      *)
(***************************************************************************)
\* int(age) of the posted text: ValueError unless it is a number
IsIntText(s) == isdigit(strip(s))

\* register_view: the login is created first, then the library user; an
\* exception of either is answered with an error message on the form
register_view(p, a, method, POST) ==
  /\ Free(p)
  /\ LET taken == \E i \in DOMAIN auth_users : auth_users[i].username = POST.username
         i == seq.auth_users + 1
         u == seq.users + 1
         login == method = "POST" /\ ~taken /\ POST.username # ""
         user == login /\ IsIntText(POST.age)
                   /\ \A v \in DOMAIN users : users[v].email # POST.email
     IN /\ req' = [req EXCEPT ![p] =
                     Answer("register_view", a, 0, method,
                            IF method # "POST" THEN Render("registration/register.html", {})
                            ELSE IF taken
                              THEN Render("registration/register.html",
                                          {Msg("error", "El nombre de usuario ya existe.")})
                            ELSE IF user
                              THEN Redirect("home", <<Msg("success", "Tu cuenta ha sido creada exitosamente.")>>)
                            ELSE Render("registration/register.html",
                                        {Msg("error", "Error al crear la cuenta")}))]
        /\ auth_users' = IF login
                           THEN Insert(auth_users, i,
                                       [NewAuthUser(POST.username) EXCEPT
                                          !.groups = IF user THEN {"Lectores"} ELSE {}])
                           ELSE auth_users
        /\ users' = IF user
                      THEN Insert(users, u,
                                  [auth_user |-> i, first_name |-> POST.first_name,
                                   last_name |-> POST.last_name, age |-> int(strip(POST.age)),
                                   email |-> POST.email])
                      ELSE users
        /\ seq' = [seq EXCEPT !.auth_users = IF login THEN i ELSE @,
                              !.users = IF user THEN u ELSE @]
  /\ UNCHANGED <<authors, genres, books>>

(***************************************************************************)
(* openlibrary_service.py: search_books, and views.py:                     *)
(* search_external_books.  The view has no decorator.                      *)
(***************************************************************************)
\* int(s) of a parameter of the query string: a string of digits with an
\* optional minus sign, or ValueError
IsSignedIntText(s) ==
  LET t == strip(s)
  IN isdigit(t) \/ (Len(t) > 1 /\ SubSeq(t, 1, 1) = "-" /\ isdigit(SubSeq(t, 2, Len(t))))
SignedInt(s) ==
  LET t == strip(s)
  IN IF Len(t) > 1 /\ SubSeq(t, 1, 1) = "-" THEN 0 - int(SubSeq(t, 2, Len(t))) ELSE int(t)

max(a, b) == IF a >= b THEN a ELSE b
min(a, b) == IF a <= b THEN a ELSE b

\* the dict search_books returns
SearchResult(items, page, next, prev, total) ==
  [items |-> items, page |-> page, next |-> next, prev |-> prev, total |-> total]
NoCache == [hit |-> FALSE, total |-> 0]
NoCall == [q |-> "", page |-> 0, limit |-> 0]

\* the items of the docs of the provider's answer
SearchItems(docs) == [i \in 1..Len(docs) |-> [title |-> docs[i].title, isbn |-> _pick_isbn(docs[i])]]

\* the result search_books computes from the answer of the provider
Paged(items, page, page_size, total) ==
  SearchResult(items, page,
               IF page * page_size < total THEN Num(page + 1) ELSE Null,
               IF page > 1 THEN Num(page - 1) ELSE Null,
               total)

\* search_books that sends the page and the page size as it got them
search_books_unclamped(q, page, page_size, cached, answer) ==
  LET params == [q |-> strip(q), page |-> page, limit |-> page_size]
  IN IF ~answer.ok \/ answer.numFound.kind = "str"
       THEN [ok |-> FALSE, params |-> params, result |-> SearchResult(<<>>, 1, Null, Null, 0)]
     ELSE [ok |-> TRUE, params |-> params,
           result |-> Paged(SearchItems(answer.docs), page, page_size, answer.numFound.int)]

\* search_books(q, page, page_size): ok is FALSE when it raised; params is what
\* was sent to the provider, NoCall when nothing was.  cached is the entry of
\* the cache for the key, a result of an earlier call with the same q, page and
\* page size.
search_books(q, page, page_size, cached, answer) ==
  LET query == strip(q)
      pg == max(1, IF page = 0 THEN 1 ELSE page)
      size == max(1, min(100, IF page_size = 0 THEN 20 ELSE page_size))
      params == [q |-> query, page |-> pg, limit |-> size]
  IN IF query = ""
       THEN [ok |-> TRUE, params |-> NoCall, result |-> SearchResult(<<>>, 1, Null, Null, 0)]
     ELSE IF cached.hit
       THEN [ok |-> TRUE, params |-> NoCall,
             result |-> Paged(<<>>, pg, size, cached.total)]
     ELSE IF ~answer.ok \/ answer.numFound.kind = "str"
       THEN [ok |-> FALSE, params |-> params, result |-> SearchResult(<<>>, 1, Null, Null, 0)]
     ELSE [ok |-> TRUE, params |-> params,
           result |-> Paged(SearchItems(answer.docs), pg, size, answer.numFound.int)]

\* request.GET.get(name, default) or number, before int()
GetOr(v, default) == IF v.kind = "null" THEN default ELSE v.str

search_external_books(p, a, GET, cached, answer) ==
  /\ Free(p)
  /\ LET q == strip(GetOr(GET.q, ""))
         page_text == GetOr(GET.page, "1")
         size_text == GetOr(GET.page_size, "20")
         raises == \/ page_text # "" /\ ~IsSignedIntText(page_text)
                   \/ size_text # "" /\ ~IsSignedIntText(size_text)
         page == IF page_text = "" THEN 1 ELSE SignedInt(page_text)
         page_size == IF size_text = "" THEN 20 ELSE SignedInt(size_text)
         found == search_books(q, page, page_size, cached, answer)
         data == IF q # "" /\ found.ok THEN found.result
                 ELSE SearchResult(<<>>, page, Null, Null, 0)
         ctx == [q |-> q, page |-> data.page, next |-> data.next, prev |-> data.prev,
                 total |-> data.total, results |-> data.items, page_size |-> page_size]
     IN req' = [req EXCEPT ![p] =
                  Answer("search_external_books", a, 0, "GET",
                         IF raises THEN ServerError
                         ELSE [Render("migrationsdb/book_search.html", ctx) EXCEPT
                                 !.msgs = IF q # "" /\ ~found.ok
                                            THEN <<Msg("warning", "No se pudo consultar Open Library")>>
                                          ELSE <<>>])
                  @@ [GET |-> GET,
                      sent |-> IF raises \/ q = "" THEN NoCall ELSE found.params,
                      failed |-> ~raises /\ q # "" /\ ~found.ok]]
  /\ UNCHANGED <<store, seq>>

(***************************************************************************)
(* views.py: the PDF reports.  Neither view has a decorator.               *)
(***************************************************************************)
Pdf(filename, data, pdf_bytes) ==
  [kind |-> "pdf", to |-> filename, msgs |-> <<>>, data |-> data, content |-> pdf_bytes]

\* the document built from the books: the header and one table row a book, by id
RECURSIVE TableRows(_)
TableRows(ids) ==
  IF ids = {} THEN <<>>
  ELSE LET b == CHOOSE x \in ids : \A y \in ids : x <= y
       IN <<books[b].title>> \o TableRows(ids \ {b})
BuildPdf(ids) == <<"%PDF-">> \o TableRows(ids)

\* what can happen to the signing: DigitalSignatureService() raises, the signer
\* raises inside sign_pdf, or it returns the document with a signature appended,
\* the document as it was, or fewer bytes than it was given
SigningOutcomes == {"init_raises", "sign_raises", "appended", "same", "truncated"}

\* pdf_bytes.find(b'%PDF-'): the index the header starts at, -1 when there is none
find_header(pdf_bytes) ==
  IF \E i \in 1..Len(pdf_bytes) : pdf_bytes[i] = "%PDF-"
  THEN (CHOOSE i \in 1..Len(pdf_bytes) :
          pdf_bytes[i] = "%PDF-" /\ \A j \in 1..(i - 1) : pdf_bytes[j] # "%PDF-") - 1
  ELSE -1

\* DigitalSignatureService.sign_pdf: the signed bytes, or the bytes it was given
\* (from the header on) when there is nothing to sign or the signer raised
sign_pdf(pdf_bytes, outcome) ==
  IF pdf_bytes = <<>> THEN pdf_bytes
  ELSE IF find_header(pdf_bytes) = -1 THEN pdf_bytes
  ELSE LET idx == find_header(pdf_bytes)
           trimmed == SubSeq(pdf_bytes, idx + 1, Len(pdf_bytes))
       IN CASE outcome = "appended" -> trimmed \o <<"/Sig">>
            [] outcome = "truncated" -> SubSeq(trimmed, 1, Len(trimmed) - 1)
            [] OTHER -> trimmed

\* signing that takes whatever the signer returned
SignIfRequested_unchecked(pdf_bytes, outcome) ==
  IF outcome = "init_raises" THEN pdf_bytes ELSE sign_pdf(pdf_bytes, outcome)

\* pdf_services.py, "if sign_document:": the signed bytes replace the document
\* only when they are longer; an exception leaves the document as it was
SignIfRequested(pdf_bytes, outcome) ==
  IF outcome = "init_raises" THEN pdf_bytes
  ELSE LET signed_pdf == sign_pdf(pdf_bytes, outcome)
       IN IF Len(signed_pdf) > Len(pdf_bytes) THEN signed_pdf ELSE pdf_bytes

user_library_pdf(p, a, user_id, outcome) ==
  /\ Free(p)
  /\ req' = [req EXCEPT ![p] =
               Answer("user_library_pdf", a, user_id, "GET",
                      IF user_id \notin DOMAIN users THEN NotFound
                      ELSE IF LibraryOf(user_id) = {}
                        THEN Redirect("user_library",
                               <<Msg("warning", "No hay libros en la biblioteca para generar PDF.")>>)
                      ELSE Pdf("biblioteca.pdf", LibraryOf(user_id),
                               SignIfRequested(BuildPdf(LibraryOf(user_id)), outcome)))
                 @@ [signing |-> outcome]]
  /\ UNCHANGED <<store, seq>>

books_report_pdf(p, a, outcome) ==
  /\ Free(p)
  /\ req' = [req EXCEPT ![p] =
               Answer("books_report_pdf", a, 0, "GET",
                      Pdf("reporte_libros.pdf", DOMAIN books,
                          SignIfRequested(BuildPdf(DOMAIN books), outcome)))
                 @@ [signing |-> outcome]]
  /\ UNCHANGED <<store, seq>>

(***************************************************************************)
(* Inputs and initial states                                               *)
(***************************************************************************)
\* request.POST.getlist('books'): up to MaxIds ids, one of them of no book
IdLists(n) == UNION {[1..k -> 1..(NumBooks + 1)] : k \in 0..n}

\* the roles the gates are tried with: a superuser, or one of the own
\* permissions (none, or one of the four of User.Meta) with at most one group
Profiles ==
  {[su |-> TRUE, perms |-> {}, groups |-> {}]}
    \cup {[su |-> FALSE, perms |-> ps, groups |-> gs] :
            ps \in {{}, {"view_all_libraries"}, {"manage_library"}, {"generate_reports"},
                    {"import_books"}},
            gs \in {{}} \cup {{g} : g \in Groups}}

Reader == [su |-> FALSE, perms |-> {}, groups |-> {"Lectores"}]
LibrarianRole == [su |-> FALSE, perms |-> {}, groups |-> {"Bibliotecarios"}]
AdminRole == [su |-> FALSE, perms |-> {}, groups |-> {"Administradores"}]

FirstNames == <<"Ana", "Luis", "Marta", "Pedro", "Sara">>
FirstNameOf(u) == FirstNames[((u - 1) % Len(FirstNames)) + 1]
Usernames == <<"ana", "luis", "marta", "pedro", "sara">>
UsernameOf(i) == Usernames[((i - 1) % Len(Usernames)) + 1]
Emails == <<"ana@x.org", "luis@x.org", "marta@x.org", "pedro@x.org", "sara@x.org">>
EmailOf(u) == Emails[((u - 1) % Len(Emails)) + 1]

\* a catalogue with NumUsers users, each with a login, one more login with no
\* library user, one author, one genre and NumBooks books owned as given by owner;
\* role[i] is the role of login i
Rows(owner, role) ==
  /\ users = [u \in UserIds |->
                [auth_user |-> u, first_name |-> FirstNameOf(u), last_name |-> "Perez",
                 age |-> 30, email |-> EmailOf(u)]]
  /\ auth_users = [i \in 1..(NumUsers + 1) |->
                     [username |-> UsernameOf(i), su |-> role[i].su, perms |-> role[i].perms,
                      groups |-> role[i].groups]]
  /\ authors = [a \in {1} |->
                  [first_name |-> "Frank", last_name |-> "Herbert", birth_date |-> date(1920),
                   nationality |-> "US"]]
  /\ genres = [g \in {1} |-> [name |-> "Novela", description |-> ""]]
  /\ books = [b \in BookIds |->
                [title |-> TitleOf(b), author |-> 1, owner |-> owner[b],
                 published_date |-> date(1965), isbn |-> NoIsbn, pages |-> 100,
                 genres |-> {1}]]
  /\ seq = [users |-> NumUsers, auth_users |-> NumUsers + 1, authors |-> 1, genres |-> 1,
            books |-> NumBooks]

\* the rows above, and no request being served
Catalogue(owner, role) ==
  /\ Rows(owner, role)
  /\ req = [p \in Procs |-> Idle]

\* the users are readers and the login with no library user is a librarian
StaffAndReaders == [i \in 1..(NumUsers + 1) |-> IF i \in UserIds THEN Reader ELSE LibrarianRole]

\* every book in the shared pool, as create_book leaves it
InitOwn == Catalogue([b \in BookIds |-> NoOwner], StaffAndReaders)

\* book 1 in the pool, the others owned; every login with the same role
InitGate ==
  \E prof \in Profiles :
    Catalogue([b \in BookIds |-> (b - 1) % (NumUsers + 1)], [i \in 1..(NumUsers + 1) |-> prof])

\* a visitor, the reader linked to user 1 and the librarian
OwnActors == {Anonymous, Session(1), Session(NumUsers + 1)}

\* the forms and the provider's answers the views are tried with
EvaForm ==
  [first_name |-> "Eva", last_name |-> "Luna", age |-> 30, email |-> "eva@x.org",
   create_auth_user |-> FALSE, username |-> "", password |-> "", password_confirm |-> ""]
UserForms ==
  {EvaForm,
   [EvaForm EXCEPT !.create_auth_user = TRUE, !.username = "eva_luna", !.password = "secreto",
                   !.password_confirm = "secreto"],
   [EvaForm EXCEPT !.age = 17],
   [EvaForm EXCEPT !.email = EmailOf(1)]}

AustenForm ==
  [first_name |-> "Jane", last_name |-> "Austen", birth_date |-> date(1775), nationality |-> "UK"]
AuthorForms == {AustenForm, [AustenForm EXCEPT !.birth_date = date(2020)]}

GenreForms ==
  {[name |-> "Poesia", description |-> ""], [name |-> "Novela", description |-> ""],
   [name |-> "P", description |-> ""]}

\* request.POST of update_genre_api: any part of the fields
GenreData == {[name |-> "Ensayo"], [name |-> "Novela"], [description |-> "Prosa"]}

EmmaForm ==
  [title |-> "Emma", author |-> 1, owner |-> 1, published_date |-> date(1815),
   isbn |-> "0141439580", pages |-> 474, genres |-> {1}]
BookForms == {EmmaForm, [EmmaForm EXCEPT !.pages = 0]}

Methods == {"GET", "POST"}

\* years and page counts of the provider's records
ProviderYears == {1965, 800, 2999, 12000, NoYear}
ProviderPages == {Num(412), Num(0), Num(-5), Text("300"), Text("0"), Text("many"), Null}

\* documents of the provider: a well formed one, and one with no ISBN whose
\* subject is a number
DuneDoc ==
  [title |-> "Dune", author_name |-> <<"Frank Herbert">>, first_publish_year |-> 1965,
   isbn |-> <<"0441013597", "978-0-441-01359-3">>, number_of_pages_median |-> Num(412),
   subject |-> [list |-> TRUE, items |-> <<"Ciencia ficcion", "Novela">>]]
EmmaDoc ==
  [title |-> "Emma", author_name |-> <<"Jane Austen">>, first_publish_year |-> NoYear,
   isbn |-> <<>>, number_of_pages_median |-> NoPages,
   subject |-> [list |-> FALSE, items |-> <<>>]]
\* the answer of the provider: an error of the network, no document, or a document
ProviderAnswers ==
  {[kind |-> "error", doc |-> DuneDoc], [kind |-> "empty", doc |-> DuneDoc],
   [kind |-> "doc", doc |-> DuneDoc], [kind |-> "doc", doc |-> EmmaDoc]}
ProviderSilent == [kind |-> "empty", doc |-> DuneDoc]

\* the GET parameters of import_external_book
ImportParams ==
  {[title |-> t, author |-> n, owner_id |-> o] :
     t \in {"", "Dune"}, n \in {"", "Frank Herbert"}, o \in {"", "1", "x1"}}
IsbnParams == {[title |-> "", author |-> "", owner_id |-> o] : o \in {"", "1", "x1"}}

(***************************************************************************)
(* Ownership transfers of concurrent requests                              *)
(***************************************************************************)
NextAdd ==
  \E p \in Procs :
    \/ /\ Free(p)
       /\ \E a \in OwnActors, u \in UserIds, ids \in IdLists(MaxIds) :
            add_books_to_library(p, a, u, "POST", ids)
    \/ AddBooksFetch(p)
    \/ AddBooksSave(p)
    \/ Respond(p)

SpecAdd == InitOwn /\ [][NextAdd]_vars

NextOwn ==
  \E p \in Procs :
    \/ /\ Free(p)
       /\ \E a \in OwnActors, u \in UserIds, ids \in IdLists(MaxIds) :
            add_books_to_library(p, a, u, "POST", ids)
    \/ AddBooksFetch(p)
    \/ AddBooksSave(p)
    \/ /\ Free(p)
       /\ \E a \in OwnActors, u \in UserIds, ids \in IdLists(MaxIds) :
            remove_books_from_library(p, a, u, "POST", ids)
    \/ RemoveBooksFetch(p)
    \/ RemoveBooksSave(p)
    \/ /\ Free(p)
       /\ \E a \in OwnActors, b \in BookIds, o \in {NoOwner} \cup UserIds :
            update_book(p, a, b, "POST", [books[b] EXCEPT !.owner = o])
    \/ Respond(p)

SpecOwn == InitOwn /\ [][NextOwn]_vars

(***************************************************************************)
(* The library gates, one request at a time                                *)
(***************************************************************************)
Sequential(p) == p = 1

NextGate ==
  \E p \in Procs :
    \/ /\ Sequential(p) /\ Free(p)
       /\ \E a \in Sessions, u \in 1..(NumUsers + 1) : user_library(p, a, u)
    \/ /\ Sequential(p) /\ Free(p)
       /\ \E a \in Sessions, u \in 1..(NumUsers + 1), m \in {"GET", "POST"}, ids \in IdLists(1) :
            add_books_to_library(p, a, u, m, ids)
    \/ /\ Sequential(p) /\ Free(p)
       /\ \E a \in Sessions, u \in 1..(NumUsers + 1), m \in {"GET", "POST"}, ids \in IdLists(1) :
            remove_books_from_library(p, a, u, m, ids)
    \/ AddBooksFetch(p)
    \/ AddBooksSave(p)
    \/ RemoveBooksFetch(p)
    \/ RemoveBooksSave(p)
    \/ Respond(p)

SpecGate == InitGate /\ [][NextGate]_vars

(***************************************************************************)
(* The CRUD views, one request at a time                                   *)
(***************************************************************************)
\* a clerk that holds the permissions of books only, and an editor of genres
BookClerk ==
  [su |-> FALSE, perms |-> {"add_book", "change_book", "delete_book"}, groups |-> {}]
GenreEditor == [su |-> FALSE, perms |-> {"change_genre"}, groups |-> {}]

\* login 1 is a reader, the login with no library user a librarian, the others
\* administrators, clerks or editors
InitCrud ==
  \E prof \in {AdminRole, BookClerk, GenreEditor} :
    Catalogue([b \in BookIds |-> (b - 1) % (NumUsers + 1)],
              [i \in 1..(NumUsers + 1) |->
                 IF i = 1 THEN Reader ELSE IF i = NumUsers + 1 THEN LibrarianRole ELSE prof])

\* the rows the requests have inserted so far
Created ==
  (seq.users - NumUsers) + (seq.auth_users - (NumUsers + 1)) + (seq.authors - 1)
    + (seq.genres - 1) + (seq.books - NumBooks)

NextCrud ==
  \E p \in Procs :
    \/ /\ Sequential(p) /\ Free(p) /\ Created < MaxNew
       /\ \E a \in Sessions, f \in UserForms : create_user(p, a, "POST", f)
    \/ CreateUserAuth(p)
    \/ /\ Sequential(p) /\ Free(p) /\ Created < MaxNew + 1
       /\ \E a \in Sessions, u \in {1, NumUsers + 1}, f \in UserForms :
            update_user(p, a, u, "POST", f)
    \/ /\ Sequential(p) /\ Free(p)
       /\ \E a \in Sessions, u \in {NumUsers, NumUsers + 1} : delete_user(p, a, u, "POST")
    \/ /\ Sequential(p) /\ Free(p) /\ Created < MaxNew
       /\ \E a \in Sessions, f \in AuthorForms : create_author(p, a, "POST", f)
    \/ /\ Sequential(p) /\ Free(p)
       /\ \E a \in Sessions, f \in AuthorForms : update_author(p, a, 1, "POST", f)
    \/ /\ Sequential(p) /\ Free(p)
       /\ \E a \in Sessions, id \in 1..2 : delete_author(p, a, id, "GET")
    \/ /\ Sequential(p) /\ Free(p)
       /\ \E a \in Sessions : list_genres(p, a)
    \/ /\ Sequential(p) /\ Free(p) /\ Created < MaxNew
       /\ \E a \in Sessions, m \in Methods, f \in GenreForms : create_genre(p, a, m, f)
    \/ /\ Sequential(p) /\ Free(p)
       /\ \E a \in Sessions, id \in 1..2 : delete_genre(p, a, id, "GET")
    \/ /\ Sequential(p) /\ Free(p)
       /\ \E a \in Sessions, m \in Methods, d \in GenreData : update_genre_api(p, a, 1, m, d)
    \/ GenreSave(p)
    \/ /\ Sequential(p) /\ Free(p) /\ Created < MaxNew
       /\ \E a \in Sessions, f \in BookForms : create_book(p, a, "POST", f)
    \/ /\ Sequential(p) /\ Free(p)
       /\ \E a \in Sessions, f \in BookForms : update_book(p, a, 1, "POST", f)
    \/ /\ Sequential(p) /\ Free(p)
       /\ \E a \in Sessions, b \in {NumBooks, NumBooks + 1} : delete_book(p, a, b, "POST")
    \/ Respond(p)

SpecCrud == InitCrud /\ [][NextCrud]_vars

(***************************************************************************)
(* Concurrent imports                                                      *)
(***************************************************************************)
NextImport ==
  \E p \in Procs :
    \/ /\ Free(p) /\ seq.books < NumBooks + MaxNew
       /\ \/ \E a \in {Anonymous, Session(NumUsers + 1)}, g \in IsbnParams,
                r \in ProviderAnswers :
               import_external_book(p, a, "9780441013593", g, r)
          \/ \E a \in {Anonymous, Session(NumUsers + 1)}, g \in ImportParams :
               import_external_book(p, a, "no-isbn", g, ProviderSilent)
    \/ ImportDedup(p)
    \/ ImportAuthor(p)
    \/ ImportGenres(p)
    \/ ImportSave(p)
    \/ Respond(p)

SpecImport == InitOwn /\ [][NextImport]_vars

(***************************************************************************)
(* Imports and reports, one request at a time, for every role              *)
(***************************************************************************)
NextReports ==
  \E p \in Procs :
    \/ /\ Sequential(p) /\ Free(p) /\ seq.books < NumBooks + MaxNew
       /\ \E a \in Sessions, g \in IsbnParams, r \in ProviderAnswers :
            import_external_book(p, a, "9780441013593", g, r)
    \/ ImportDedup(p)
    \/ ImportAuthor(p)
    \/ ImportGenres(p)
    \/ ImportSave(p)
    \/ /\ Sequential(p) /\ Free(p)
       /\ \E a \in Sessions, u \in 1..(NumUsers + 1), o \in SigningOutcomes :
            user_library_pdf(p, a, u, o)
    \/ /\ Sequential(p) /\ Free(p)
       /\ \E a \in Sessions, o \in SigningOutcomes : books_report_pdf(p, a, o)
    \/ Respond(p)

SpecReports == InitGate /\ [][NextReports]_vars

(***************************************************************************)
(* Ownership transfers, one request at a time                              *)
(***************************************************************************)
\* book 1 in the pool, the others owned; the users are readers
InitTransfer == Catalogue([b \in BookIds |-> (b - 1) % (NumUsers + 1)], StaffAndReaders)

NextTransfer ==
  \E p \in Procs :
    \/ /\ Sequential(p) /\ Free(p)
       /\ \E a \in OwnActors, u \in UserIds, ids \in IdLists(MaxIds) :
            add_books_to_library(p, a, u, "POST", ids)
    \/ AddBooksFetch(p)
    \/ AddBooksSave(p)
    \/ /\ Sequential(p) /\ Free(p)
       /\ \E a \in OwnActors, u \in UserIds, ids \in IdLists(MaxIds) :
            remove_books_from_library(p, a, u, "POST", ids)
    \/ RemoveBooksFetch(p)
    \/ RemoveBooksSave(p)
    \/ Respond(p)

SpecTransfer == InitTransfer /\ [][NextTransfer]_vars

(***************************************************************************)
(* _pick_isbn on documents of the provider                                 *)
(***************************************************************************)
\* values of a document's "isbn" list: with hyphens, blanks, a lower-case
\* check digit, wrong lengths and wrong characters
IsbnCodes ==
  {"9780441013593", "978-0-441-01359-3", " 9780306406157", "978044101359X", "97804410135931",
   "0441013597", "0-306-40615-2", "044101359x", "044101359Y", "04410135", ""}

IsbnLists == UNION {[1..k -> IsbnCodes] : k \in 0..MaxCodes}

\* a document of the provider is about to be read
InitPick ==
  /\ Rows([b \in BookIds |-> NoOwner], StaffAndReaders)
  /\ \E isbns \in IsbnLists :
       req = [p \in Procs |->
                IF Sequential(p)
                  THEN [view |-> "_pick_isbn", pc |-> "call", doc |-> [isbn |-> isbns]]
                ELSE Idle]

\* isbn = _pick_isbn(doc)
PickIsbn(p) ==
  /\ req[p].view = "_pick_isbn"
  /\ req[p].pc = "call"
  /\ req' = [req EXCEPT ![p] = [view |-> "_pick_isbn", pc |-> "done", doc |-> req[p].doc,
                                isbn |-> _pick_isbn(req[p].doc)]]
  /\ UNCHANGED <<store, seq>>

NextPick == \E p \in Procs : PickIsbn(p)

SpecPick == InitPick /\ [][NextPick]_vars

(***************************************************************************)
(* Imports of documents with any number of subjects, one request at a time *)
(***************************************************************************)
\* subjects of the provider: the name of a stored genre, two subjects of 52
\* characters that are equal up to the 50th, and short ones
SubjectPool ==
  <<"Novela",
    "Ciencia ficcion de aventuras en planetas deserticos I",
    "Ciencia ficcion de aventuras en planetas deserticos II",
    "Ecologia", "Politica", "Religion", "Imperios", "Especia">>
Subject(i) == SubjectPool[((i - 1) % Len(SubjectPool)) + 1]

\* DuneDoc with the first k subjects
TaggedDoc(k) ==
  [DuneDoc EXCEPT !.subject = [list |-> TRUE, items |-> [i \in 1..k |-> Subject(i)]]]

NextSubjects ==
  \E p \in Procs :
    \/ /\ Sequential(p) /\ Free(p) /\ seq.books < NumBooks + MaxNew
       /\ \E a \in {Anonymous, Session(NumUsers + 1)}, g \in IsbnParams, k \in 0..MaxTags :
            import_external_book(p, a, "9780441013593", g, [kind |-> "doc", doc |-> TaggedDoc(k)])
    \/ ImportDedup(p)
    \/ ImportAuthor(p)
    \/ ImportGenres(p)
    \/ ImportSave(p)
    \/ Respond(p)

SpecSubjects == InitOwn /\ [][NextSubjects]_vars

(***************************************************************************)
(* Imports of records without ISBN and creation of authors, one request at *)
(* a time                                                                  *)
(***************************************************************************)
\* the form of an author with the names of the stored author
HerbertForm ==
  [first_name |-> "Frank", last_name |-> "Herbert", birth_date |-> date(1920),
   nationality |-> "US"]

\* title and author typed for a record without ISBN: no author, one word, two
\* words, and the names of the stored author
TypedParams ==
  {[title |-> t, author |-> n, owner_id |-> ""] :
     t \in {"", "Mesias"}, n \in {"", "Homero", "Julio Verne", "Frank Herbert"}}

NextNames ==
  \E p \in Procs :
    \/ /\ Sequential(p) /\ Free(p) /\ Created < 3 * MaxNew
       /\ create_author(p, Session(NumUsers + 1), "POST", HerbertForm)
    \/ /\ Sequential(p) /\ Free(p) /\ Created < 3 * MaxNew
       /\ \E g \in TypedParams :
            import_external_book(p, Session(NumUsers + 1), "no-isbn", g, ProviderSilent)
    \/ ImportDedup(p)
    \/ ImportAuthor(p)
    \/ ImportGenres(p)
    \/ ImportSave(p)
    \/ Respond(p)

SpecNames == InitOwn /\ [][NextNames]_vars

(***************************************************************************)
(* Concurrent creations and updates of genres, and imports                 *)
(***************************************************************************)
\* names that the subjects of DuneDoc and the stored genre also have
NamedGenreForms ==
  {[name |-> "Ciencia ficcion", description |-> "Del futuro"],
   [name |-> "Ensayo", description |-> ""]}
NamedGenreData == {[name |-> "Ciencia ficcion"], [name |-> "Ensayo"]}

NextGenres ==
  \E p \in Procs :
    \/ /\ Free(p) /\ Created < 2 * MaxNew
       /\ \E f \in NamedGenreForms : create_genre(p, Session(NumUsers + 1), "POST", f)
    \/ /\ Free(p) /\ Created < 2 * MaxNew
       /\ \E g \in 1..2, d \in NamedGenreData :
            update_genre_api(p, Session(NumUsers + 1), g, "POST", d)
    \/ GenreSave(p)
    \/ /\ Free(p) /\ Created < 2 * MaxNew
       /\ import_external_book(p, Session(NumUsers + 1), "9780441013593",
                               [title |-> "", author |-> "", owner_id |-> ""],
                               [kind |-> "doc", doc |-> DuneDoc])
    \/ ImportDedup(p)
    \/ ImportAuthor(p)
    \/ ImportGenres(p)
    \/ ImportSave(p)
    \/ Respond(p)

SpecGenres == InitOwn /\ [][NextGenres]_vars

(***************************************************************************)
(* Books written by the forms and by imports, one request at a time        *)
(***************************************************************************)
\* forms of a book: ISBNs of 10, 5 and 13 characters and no ISBN, pages and
\* dates that clean() accepts or refuses
VariedBookForms ==
  {[EmmaForm EXCEPT !.owner = NoOwner, !.isbn = i, !.pages = n, !.published_date = d] :
     i \in {"0141439580", "12345", "9780441013593", NoIsbn},
     n \in {474, 0},
     d \in {date(1815), date(2999)}}

\* the record of the provider without ISBN, with a year and pages as given
VariedDoc(isbns, year, pages) ==
  [DuneDoc EXCEPT !.isbn = isbns, !.first_publish_year = year, !.number_of_pages_median = pages]

\* the ISBN of the request path: an ISBN-13, and a code of 5 characters
PathIsbns == {"9780441013593", "12345"}

NextBooks ==
  \E p \in Procs :
    \/ /\ Sequential(p) /\ Free(p) /\ Created < 2 * MaxNew
       /\ \E f \in VariedBookForms : create_book(p, Session(NumUsers + 1), "POST", f)
    \/ /\ Sequential(p) /\ Free(p)
       /\ \E f \in VariedBookForms : update_book(p, Session(NumUsers + 1), 1, "POST", f)
    \/ /\ Sequential(p) /\ Free(p) /\ Created < 2 * MaxNew
       /\ \E path \in PathIsbns, isbns \in {<<>>, DuneDoc.isbn}, y \in ProviderYears,
             n \in ProviderPages :
            import_external_book(p, Session(NumUsers + 1), path,
                                 [title |-> "", author |-> "", owner_id |-> ""],
                                 [kind |-> "doc", doc |-> VariedDoc(isbns, y, n)])
    \/ ImportDedup(p)
    \/ ImportAuthor(p)
    \/ ImportGenres(p)
    \/ ImportSave(p)
    \/ Respond(p)

SpecBooks == InitOwn /\ [][NextBooks]_vars

(***************************************************************************)
(* Deletions of users and authors among concurrent transfers and imports   *)
(***************************************************************************)
\* book 1 in the pool, the others owned; the login with no library user is an
\* administrator
InitDelete ==
  Catalogue([b \in BookIds |-> (b - 1) % (NumUsers + 1)],
            [i \in 1..(NumUsers + 1) |-> IF i \in UserIds THEN Reader ELSE AdminRole])

NextDelete ==
  \E p \in Procs :
    \/ /\ Free(p)
       /\ \E u \in UserIds : delete_user(p, Session(NumUsers + 1), u, "POST")
    \/ /\ Free(p)
       /\ delete_author(p, Session(NumUsers + 1), 1, "POST")
    \/ /\ Free(p)
       /\ \E u \in UserIds, ids \in IdLists(1) :
            add_books_to_library(p, Session(NumUsers + 1), u, "POST", ids)
    \/ AddBooksFetch(p)
    \/ AddBooksSave(p)
    \/ /\ Free(p)
       /\ \E u \in UserIds, ids \in IdLists(1) :
            remove_books_from_library(p, Session(NumUsers + 1), u, "POST", ids)
    \/ RemoveBooksFetch(p)
    \/ RemoveBooksSave(p)
    \/ /\ Free(p) /\ seq.books < NumBooks + MaxNew
       /\ import_external_book(p, Session(NumUsers + 1), "no-isbn",
                               [title |-> "Mesias", author |-> "Frank Herbert", owner_id |-> "1"],
                               ProviderSilent)
    \/ ImportDedup(p)
    \/ ImportAuthor(p)
    \/ ImportGenres(p)
    \/ ImportSave(p)
    \/ Respond(p)

SpecDelete == InitDelete /\ [][NextDelete]_vars

(***************************************************************************)
(* Users and logins: create_user, update_user and register_view, one       *)
(* request at a time                                                       *)
(***************************************************************************)
\* forms of a user with and without a login, with a new and a taken username
LoginForms ==
  {EvaForm,
   [EvaForm EXCEPT !.create_auth_user = TRUE, !.username = "eva_luna", !.password = "secreto",
                   !.password_confirm = "secreto"],
   [EvaForm EXCEPT !.create_auth_user = TRUE, !.username = UsernameOf(1),
                   !.password = "secreto", !.password_confirm = "secreto"]}

\* request.POST of register_view: a new or a taken username, a new or a taken
\* email, an age that is a number or not
Registrations ==
  {[username |-> n, password |-> "secreto", first_name |-> "Eva", last_name |-> "Luna",
    email |-> e, age |-> g] :
     n \in {"eva_luna", "leo_paz", UsernameOf(1), ""},
     e \in {"eva@x.org", "leo@x.org", EmailOf(1)}, g \in {"30", "x"}}

NextIdentity ==
  \E p \in Procs :
    \/ /\ Sequential(p) /\ Free(p) /\ Created < 4 * MaxNew
       /\ \E f \in LoginForms : create_user(p, Session(NumUsers + 1), "POST", f)
    \/ CreateUserAuth(p)
    \/ /\ Sequential(p) /\ Free(p) /\ Created < 4 * MaxNew
       /\ \E u \in 1..(NumUsers + 1), f \in LoginForms :
            update_user(p, Session(NumUsers + 1), u, "POST", f)
    \/ /\ Sequential(p) /\ Free(p) /\ Created < 4 * MaxNew
       /\ \E d \in Registrations : register_view(p, Anonymous, "POST", d)
    \/ Respond(p)

SpecIdentity == InitDelete /\ [][NextIdentity]_vars

(***************************************************************************)
(* The search of the provider, one request at a time                       *)
(***************************************************************************)
\* the query string: q, page and page_size absent, empty or given
SearchParams ==
  [q : {Null, Text("dune"), Text("  ")},
   page : {Null, Text(""), Text("1"), Text("2"), Text("0"), Text("-3"), Text("x")},
   page_size : {Null, Text(""), Text("5"), Text("0"), Text("-1"), Text("100"), Text("500"),
                Text("x")}]

\* the answer of the provider to /search.json: an error, or numFound and docs
NumFound == {Num(0), Num(7), Num(150), Null, Text("many")}
SearchAnswers ==
  {[ok |-> FALSE, numFound |-> Null, docs |-> <<>>]}
    \cup {[ok |-> TRUE, numFound |-> n, docs |-> <<DuneDoc>>] : n \in NumFound}

\* the entry of the cache: none, or the result of an earlier call
CacheEntries == {NoCache, [hit |-> TRUE, total |-> 7], [hit |-> TRUE, total |-> 150]}

NextSearch ==
  \E p \in Procs :
    \/ /\ Sequential(p) /\ Free(p)
       /\ \E a \in {Anonymous, Session(1)}, g \in SearchParams, c \in CacheEntries,
             r \in SearchAnswers :
            search_external_books(p, a, g, c, r)
    \/ Respond(p)

SpecSearch == InitOwn /\ [][NextSearch]_vars

(***************************************************************************)
(* The requests of one reader: add_books on every library, from every      *)
(* ownership of the books, two requests at a time                          *)
(***************************************************************************)
InitSelf ==
  \E owner \in [BookIds -> {NoOwner} \cup UserIds] : Catalogue(owner, StaffAndReaders)

NextSelf ==
  \E p \in Procs :
    \/ /\ Free(p)
       /\ \E u \in 1..(NumUsers + 1), m \in {"GET", "POST"}, ids \in IdLists(MaxIds) :
            add_books_to_library(p, Session(1), u, m, ids)
    \/ AddBooksFetch(p)
    \/ AddBooksSave(p)
    \/ Respond(p)

SpecSelf == InitSelf /\ [][NextSelf]_vars

(***************************************************************************)
(* Ownership transfers while an administrator edits the books              *)
(***************************************************************************)
\* the edits of a Book: another title or another number of pages, same owner
Edits(b) == {[books[b] EXCEPT !.title = "Dune Messiah"], [books[b] EXCEPT !.pages = 250]}

NextEdit ==
  \E p \in Procs :
    \/ /\ Free(p)
       /\ \E u \in UserIds, ids \in IdLists(1) :
            add_books_to_library(p, Session(NumUsers + 1), u, "POST", ids)
    \/ AddBooksFetch(p)
    \/ AddBooksSave(p)
    \/ /\ Free(p)
       /\ \E u \in UserIds, ids \in IdLists(1) :
            remove_books_from_library(p, Session(NumUsers + 1), u, "POST", ids)
    \/ RemoveBooksFetch(p)
    \/ RemoveBooksSave(p)
    \/ /\ Free(p)
       /\ \E b \in BookIds : \E f \in Edits(b) :
            update_book(p, Session(NumUsers + 1), b, "POST", f)
    \/ Respond(p)

SpecEdit == InitDelete /\ [][NextEdit]_vars

(***************************************************************************)
(* Properties                                                              *)
(***************************************************************************)
IsAddBooks(r) == r.view = "add_books_to_library"
IsRemoveBooks(r) == r.view = "remove_books_from_library"

\* the book a transfer request is at
CurrentId(r) == r.ids[r.i]

\* a submission of one book that counted it as added
CountedAsAdded(r, b) ==
  IsAddBooks(r) /\ r.pc = "done" /\ r.resp.kind = "redirect" /\ r.resp.to = "user_library"
    /\ r.ids = <<b>> /\ r.books_added = 1

\* C1: when add_books submissions for different users race on an unowned Book,
\* no other submission writes the owner between the owner check and the write
\* of one submission, and only one of them counts the Book as added.
C1_OwnershipExclusive ==
  /\ \A p \in Procs :
       (IsAddBooks(req[p]) /\ req[p].pc = "save")
         => books[CurrentId(req[p])].owner \in {NoOwner, req[p].target}
  /\ \A p, q \in Procs, b \in BookIds :
       (p # q /\ CountedAsAdded(req[p], b) /\ CountedAsAdded(req[q], b))
         => req[p].target = req[q].target

\* C2: the write of remove_books(u, [b]) sets the owner of b to null if b is
\* owned by u at the moment of the write, and changes nothing otherwise.
C2_RemovalSafety ==
  [][\A p \in Procs :
       (IsRemoveBooks(req[p]) /\ req[p].pc = "save" /\ req'[p] # req[p])
         => LET b == CurrentId(req[p]) IN
              books'[b].owner = IF books[b].owner = req[p].target
                                  THEN NoOwner ELSE books[b].owner]_vars

\* C3: no step changes the owner of a Book from one user to another user.
C3_NoDirectTransfer ==
  [][\A b \in DOMAIN books :
       (b \in DOMAIN books' /\ books[b].owner # NoOwner /\ books'[b].owner # NoOwner)
         => books'[b].owner = books[b].owner]_vars

\* C10: remove_books answers no request with an error because of an id whose
\* Book is not owned by the user (the users of the requests all exist).
C10_RemoveIgnoresUnmatched ==
  \A p \in Procs : IsRemoveBooks(req[p]) => req[p].resp.kind # "404"

\* the policy of the library pages, as the specification states it
HoldsCapability(a, perm) ==
  a.su \/ perm \in a.perms \/ \E g \in a.groups : perm \in GroupPermissions(g)

CanAccessLibrary(a, u) ==
  \/ HoldsCapability(a, "view_all_libraries")
  \/ "Administradores" \in a.groups
  \/ "Bibliotecarios" \in a.groups
  \/ u \in DOMAIN users /\ users[u].auth_user = a.id

CanManageLibrary(a) ==
  \/ HoldsCapability(a, "manage_library")
  \/ "Administradores" \in a.groups
  \/ "Bibliotecarios" \in a.groups

AccessGated(r) == r.view \in {"user_library", "add_books_to_library"}

\* the request was turned away to the home page
SentHome(r) == r.pc = "done" /\ r.resp.kind = "redirect" /\ r.resp.to = "home"

\* C6: for an authenticated actor and an existing target user, the library
\* access gate lets the request through exactly when the actor holds
\* view_all_libraries, is in Administradores or Bibliotecarios, or is linked
\* to the target user.
C6_AccessPolicyMatrix ==
  \A p \in Procs :
    (AccessGated(req[p]) /\ req[p].actor.auth /\ req[p].target \in DOMAIN users)
      => (~SentHome(req[p]) <=> CanAccessLibrary(req[p].actor, req[p].target))

\* a reader linked to another user is turned away, and so is an identity with
\* no linked user
C6_Witness ==
  /\ req[1].view = "user_library"
  /\ SentHome(req[1])
  /\ req[1].actor.groups = {"Lectores"}
  /\ \/ \E u \in DOMAIN users : users[u].auth_user = req[1].actor.id /\ u # req[1].target
     \/ \A u \in DOMAIN users : users[u].auth_user # req[1].actor.id

\* the policy denies the request r
PolicyDenies(r) ==
  \/ AccessGated(r) /\ r.actor.auth /\ r.target \in DOMAIN users
       /\ ~CanAccessLibrary(r.actor, r.target)
  \/ IsRemoveBooks(r) /\ r.actor.auth /\ ~CanManageLibrary(r.actor)

\* C7: a request a library gate denies is answered at once by a redirect to
\* home with one error message and no data, and changes nothing in the store.
C7_DenialIsTotal ==
  [][\A p \in Procs :
       (req'[p] # req[p] /\ PolicyDenies(req'[p]))
         => /\ req'[p].pc = "done"
            /\ req'[p].resp.kind = "redirect"
            /\ req'[p].resp.to = "home"
            /\ Len(req'[p].resp.msgs) = 1
            /\ req'[p].resp.msgs[1].level = "error"
            /\ req'[p].resp.data = {}
            /\ store' = store]_vars

\* a reader's POST to remove_books of a user who owns a book is denied
C7_Witness ==
  /\ IsRemoveBooks(req[1])
  /\ req[1].method = "POST"
  /\ req[1].resp = ManagementDenied
  /\ req[1].actor.groups = {"Lectores"}
  /\ LibraryOf(req[1].target) # {}

\* the views that create, change and delete users, authors, genres and books,
\* each with the capability of its entity
Capability(view) ==
  CASE view = "create_user" -> "add_user"
    [] view = "update_user" -> "change_user"
    [] view = "delete_user" -> "delete_user"
    [] view = "create_author" -> "add_author"
    [] view = "update_author" -> "change_author"
    [] view = "delete_author" -> "delete_author"
    [] view = "create_genre" -> "add_genre"
    [] view = "update_genre_api" -> "change_genre"
    [] view = "delete_genre" -> "delete_genre"
    [] view = "create_book" -> "add_book"
    [] view = "update_book" -> "change_book"
    [] view = "delete_book" -> "delete_book"
    [] OTHER -> "none"

\* C8: a request to a CRUD view changes the store only when its actor is
\* authenticated and holds the capability that matches the view.
C8_CrudGated ==
  [][\A p \in Procs :
       (req'[p] # req[p] /\ Capability(req'[p].view) # "none" /\ store' # store)
         => /\ req'[p].actor.auth
            /\ HoldsCapability(req'[p].actor, Capability(req'[p].view))]_vars

IsImport(r) == r.view = "import_external_book"

\* the request ended with an error message
ImportFailed(r) ==
  IsImport(r) /\ r.pc = "done" /\ \E i \in 1..Len(r.resp.msgs) : r.resp.msgs[i].level = "error"

\* C4: an import whose ISBN a stored Book already has ends at the duplicate
\* check: it writes nothing, reports the existing Book, and exactly one Book
\* has that ISBN.
C4_ImportIdempotent ==
  [][\A p \in Procs :
       (/\ IsImport(req[p])
        /\ req[p].pc = "dedup"
        /\ req[p].isbn_clean # NoIsbn
        /\ \E b \in DOMAIN books : books[b].isbn = req[p].isbn_clean
        /\ req'[p] # req[p])
         => /\ store' = store
            /\ seq' = seq
            /\ req'[p].pc = "done"
            /\ req'[p].resp.kind = "redirect"
            /\ req'[p].resp.msgs[1] = Msg("info", "El libro ya existe en el sistema.")
            /\ Cardinality({b \in DOMAIN books' : books'[b].isbn = req[p].isbn_clean}) = 1]_vars

\* a second import of the ISBN of a Book in the shared pool, for the user 1,
\* was answered with the existing Book
C4_Witness ==
  \E p \in Procs :
    /\ IsImport(req[p])
    /\ req[p].pc = "done"
    /\ req[p].isbn_clean # NoIsbn
    /\ req[p].GET.owner_id = "1"
    /\ req[p].resp.to = "user_library"
    /\ Len(req[p].resp.msgs) = 1
    /\ req[p].resp.msgs[1].level = "info"
    /\ \E b \in DOMAIN books : books[b].isbn = req[p].isbn_clean /\ books[b].owner = NoOwner

\* C5: an import that fails leaves the store as it was before the request, and
\* ends with an error message and a redirect.
C5_ImportAtomic ==
  [][\A p \in Procs :
       (req'[p] # req[p] /\ ImportFailed(req'[p]))
         => /\ store' = store
            /\ req'[p].resp.kind = "redirect"]_vars

CanImportBooks(a) ==
  a.auth /\ (HoldsCapability(a, "import_books") \/ "Administradores" \in a.groups
               \/ "Bibliotecarios" \in a.groups)

CanGenerateReports(a) ==
  a.auth /\ (HoldsCapability(a, "generate_reports") \/ "Administradores" \in a.groups
               \/ "Bibliotecarios" \in a.groups)

\* C9: a Book is imported only for an actor that may import books, and a PDF
\* report is returned only to an actor that may generate reports.
C9_ImportAndReportsGated ==
  \A p \in Procs :
    /\ (IsImport(req[p]) /\ req[p].pc = "done" /\ req[p].resp.msgs # <<>>
          /\ req[p].resp.msgs[1].level = "success")
         => CanImportBooks(req[p].actor)
    /\ (req[p].view \in {"user_library_pdf", "books_report_pdf"} /\ req[p].resp.kind = "pdf")
         => CanGenerateReports(req[p].actor)

\* a submission of add_books that went through all its ids
AddBooksCompleted(r) ==
  IsAddBooks(r) /\ r.pc = "done" /\ r.method = "POST" /\ r.resp.kind = "redirect"
    /\ r.resp.to = "user_library"

\* the messages of level lvl in the response
Levels(resp) == {resp.msgs[i].level : i \in 1..Len(resp.msgs)}

\* C11: with one request at a time, each id of add_books(u, ids) whose Book is
\* unowned when it is processed makes u the owner and is counted; each id whose
\* Book has an owner leaves the Book as it is and puts its title in the
\* unavailable list; the count is the number of owner changes, and no other
\* Book changes.
C11_AddBooksFunctional ==
  /\ [][\A p \in Procs :
          (IsAddBooks(req[p]) /\ req[p].pc \in {"fetch", "save"} /\ req'[p] # req[p]
             /\ CurrentId(req[p]) \in DOMAIN books)
            => LET r == req[p]
                   id == CurrentId(r)
                   changed == {b \in DOMAIN books : books'[b].owner # books[b].owner}
               IN /\ DOMAIN books' = DOMAIN books
                  /\ changed \subseteq {id}
                  /\ req'[p].books_added = r.books_added + Cardinality(changed)
                  /\ IF books[id].owner = NoOwner
                       THEN /\ (r.pc = "save") = (books'[id].owner = r.target)
                            /\ (r.pc = "fetch") = (req'[p].pc = "save")
                            /\ req'[p].books_not_available = r.books_not_available
                       ELSE /\ changed = {}
                            /\ req'[p].books_not_available
                                 = Append(r.books_not_available, books[id].title)]_vars
  /\ [](\A p \in Procs :
          AddBooksCompleted(req[p])
            => /\ req[p].books_added + Len(req[p].books_not_available) = Len(req[p].ids)
               /\ \A i \in 1..Len(req[p].ids) : books[req[p].ids[i]].owner # NoOwner
               /\ ("success" \in Levels(req[p].resp)) = (req[p].books_added > 0)
               /\ ("warning" \in Levels(req[p].resp)) = (req[p].books_not_available # <<>>))

\* the same unowned Book listed twice: added once, and reported as unavailable once
C11_Witness ==
  \E p \in Procs :
    /\ AddBooksCompleted(req[p])
    /\ req[p].ids = <<1, 1>>
    /\ req[p].books_added = 1
    /\ req[p].books_not_available = <<TitleOf(1)>>
    /\ books[1].owner = req[p].target

\* C12: a transfer request that aborts at an id has changed no owner before it.
C12_TransferAllOrNothing ==
  \A p \in Procs :
    (req[p].pc = "done" /\ req[p].resp.kind = "404")
      => /\ IsAddBooks(req[p]) /\ "ids" \in DOMAIN req[p] => req[p].books_added = 0
         /\ IsRemoveBooks(req[p]) /\ "ids" \in DOMAIN req[p] => req[p].i = 1

\* C13: remove_books for the user u, asked by the identity linked to u, is not
\* turned away by the management gate.
C13_ReaderRemovesOwn ==
  \A p \in Procs :
    (IsRemoveBooks(req[p]) /\ req[p].actor.auth /\ LinkedUser(req[p].actor) = req[p].target
       /\ LibraryOf(req[p].target) # {})
      => req[p].resp # ManagementDenied

\* a code of 13 digits, and a code of 9 digits followed by a digit or X
Is13Digits(s) == Len(s) = 13 /\ \A i \in 1..13 : SubSeq(s, i, i) \in Digits
Is9DigitsAndCheck(s) ==
  /\ Len(s) = 10
  /\ \A i \in 1..9 : SubSeq(s, i, i) \in Digits
  /\ SubSeq(s, 10, 10) \in Digits \cup {"X"}

\* C14: _pick_isbn returns the first cleaned candidate of 13 digits wherever it
\* stands; without one, the first cleaned candidate of 9 digits and a digit or
\* X; without either, no ISBN. A 10-character candidate is never returned when
\* a 13-digit one is in the list.
C14_PickIsbnPrefers13 ==
  \A p \in Procs :
    (req[p].view = "_pick_isbn" /\ req[p].pc = "done")
      => LET isbns == req[p].doc.isbn
             code == [i \in 1..Len(isbns) |-> CleanIsbn(isbns[i])]
             thirteen == {i \in 1..Len(isbns) : Is13Digits(code[i])}
             ten == {i \in 1..Len(isbns) : Is9DigitsAndCheck(code[i])}
         IN /\ thirteen # {}
                => \E i \in thirteen : /\ req[p].isbn = code[i]
                                       /\ \A j \in thirteen : i <= j
            /\ (thirteen = {} /\ ten # {})
                => \E i \in ten : /\ req[p].isbn = code[i]
                                  /\ \A j \in ten : i <= j
            /\ (thirteen = {} /\ ten = {}) => req[p].isbn = NoIsbn
            /\ thirteen # {} => Len(req[p].isbn) = 13

\* an ISBN-10 stands before a hyphenated ISBN-13, and the ISBN-13 is returned
C14_Witness ==
  \E p \in Procs :
    /\ req[p].view = "_pick_isbn" /\ req[p].pc = "done"
    /\ req[p].doc.isbn = <<"044101359x", "978-0-441-01359-3">>
    /\ req[p].isbn = "9780441013593"

\* the first n elements of a sequence
FirstN(s, n) == SubSeq(s, 1, IF Len(s) < n THEN Len(s) ELSE n)

\* C15: whatever the number of subjects of the record, an import creates at most
\* 5 Genres and links at most 5 Genres to the new Book, named after the first 5
\* subjects cut to 50 characters.
C15_GenreCap ==
  [][\A p \in Procs :
       (IsImport(req[p]) /\ store' # store)
         => LET tags == FirstN(req[p].book.subjects.items, 5)
                cut == {SubSeq(tags[i], 1, IF Len(tags[i]) < 50 THEN Len(tags[i]) ELSE 50) :
                          i \in 1..Len(tags)}
                created == DOMAIN genres' \ DOMAIN genres
            IN /\ Cardinality(created) <= 5
               /\ {genres'[g].name : g \in created} \subseteq cut
               /\ \A b \in DOMAIN books' \ DOMAIN books :
                    /\ Cardinality(books'[b].genres) <= 5
                    /\ {genres'[g].name : g \in books'[b].genres} = cut]_vars

\* a Book imported from a record of more than 5 subjects: 5 subjects are read,
\* two of them are one Genre after the cut, so the Book has 4 Genres
C15_Witness ==
  \E b \in DOMAIN books \ BookIds :
    /\ Cardinality(books[b].genres) = 4
    /\ Cardinality(DOMAIN genres) = 4
    /\ \E g \in books[b].genres : Len(genres[g].name) = 50
    /\ \A g \in DOMAIN genres : genres[g].name # Subject(6)

\* an import of a typed record (no ISBN) that has been answered
TypedImportDone(r) == IsImport(r) /\ r.pc = "done" /\ r.target = "no-isbn"

\* the duplicate check of the import found a Book
ToldExisting(r) == \E i \in 1..Len(r.resp.msgs) : r.resp.msgs[i].level = "info"

\* C16: an import without ISBN, of a title and an author name of two words, that
\* found no existing Book, has created one Book with that title, the Author
\* (first word, second word), 1900-01-01, 100 pages, no ISBN and no Genre.
C16_NoIsbnImport ==
  \A p \in Procs :
    (/\ TypedImportDone(req[p])
     /\ strip(req[p].GET.title) # ""
     /\ Len(split(req[p].GET.author)) = 2
     /\ ~ToldExisting(req[p]))
      => \E b \in DOMAIN books \ BookIds :
           /\ b = seq.books
           /\ books[b].title = strip(req[p].GET.title)
           /\ authors[books[b].author].first_name = split(req[p].GET.author)[1]
           /\ authors[books[b].author].last_name = split(req[p].GET.author)[2]
           /\ books[b].published_date = date(1900)
           /\ books[b].pages = 100
           /\ books[b].isbn = NoIsbn
           /\ books[b].genres = {}

\* C17: the Books imported without ISBN differ in title or in author: a second
\* import of the same title and author name stores no second Book.
C17_NoDuplicateByTitle ==
  \A b1, b2 \in DOMAIN books \ BookIds :
    (/\ books[b1].isbn = NoIsbn
     /\ books[b2].isbn = NoIsbn
     /\ books[b1].title = books[b2].title
     /\ books[b1].author = books[b2].author)
      => b1 = b2

\* C18: the Author an import resolves has the last word of the name as
\* last_name and the words before it as first_name: empty for a name of one
\* word, and ('Autor', 'Desconocido') for no name.
C18_AuthorResolution ==
  \A p \in Procs :
    (IsImport(req[p]) /\ req[p].pc \in {"genres", "save"} /\ req[p].target = "no-isbn")
      => LET words == split(req[p].GET.author)
             row == Visible(authors, req[p].tx.authors)[req[p].author]
         IN IF words = <<>>
              THEN row.first_name = "Autor" /\ row.last_name = "Desconocido"
              ELSE /\ row.last_name = words[Len(words)]
                   /\ row.first_name = join(SubSeq(words, 1, Len(words) - 1))

\* C19: no two Genres have the same name, whatever the interleaving of
\* create_genre, update_genre_api and imports; a subject that an import reads
\* and that is the name of a stored Genre resolves to that Genre, without a new
\* one, and the Book is linked to the Genres resolved.
C19_GenreNamesUnique ==
  /\ [](\A g1, g2 \in DOMAIN genres : genres[g1].name = genres[g2].name => g1 = g2)
  /\ [][\A p \in Procs :
          (IsImport(req[p]) /\ req[p].pc = "genres" /\ req'[p].pc = "save")
            => LET tags == FirstN(req[p].book.subjects.items, 5) IN
                 \A i \in 1..Len(tags), g \in DOMAIN genres :
                   genres[g].name = tags[i]
                     => /\ req'[p].genres[i] = g
                        /\ \A n \in DOMAIN req'[p].tx.genres :
                             req'[p].tx.genres[n].name # tags[i]]_vars
  /\ [][\A p \in Procs :
          (IsImport(req[p]) /\ req[p].pc = "save" /\ req'[p].pc = "done")
            => \A b \in DOMAIN books' \ DOMAIN books :
                 books'[b].genres = {req[p].genres[i] : i \in 1..Len(req[p].genres)}]_vars

\* a Book imported with the subjects "Ciencia ficcion" and "Novela" is linked to
\* the Genre that create_genre had stored and to the Genre of the catalogue
C19_Witness ==
  \E b \in DOMAIN books \ BookIds :
    /\ books[b].genres = {1, 2}
    /\ DOMAIN genres = {1, 2}
    /\ genres[1].name = "Novela"
    /\ genres[2] = [name |-> "Ciencia ficcion", description |-> "Del futuro"]

\* C20: whatever the interleaving of imports, at most one Author row has a
\* given (first_name, last_name) pair.
C20_OneAuthorPerPair ==
  \A a1, a2 \in DOMAIN authors :
    (authors[a1].first_name = authors[a2].first_name
       /\ authors[a1].last_name = authors[a2].last_name)
      => a1 = a2

\* C21: every Book with an ISBN has an ISBN of 10 or 13 characters, and no two
\* Books have the same ISBN.
C21_IsbnInvariant ==
  \A b \in DOMAIN books :
    books[b].isbn # NoIsbn
      => /\ Len(books[b].isbn) \in {10, 13}
         /\ \A c \in DOMAIN books : books[c].isbn = books[b].isbn => c = b

\* C22: every stored Book has a positive number of pages.
C22_PagesPositive == \A b \in DOMAIN books : books[b].pages > 0

\* C23: no stored Book has a published date after today.
C23_PublishedNotFuture == \A b \in DOMAIN books : books[b].published_date <= Today

\* C24: the author of every Book exists and its owner is null or an existing
\* User; delete_user and delete_author take with them the Books of the row
\* they delete.
C24_ReferentialIntegrity ==
  /\ [](\A b \in DOMAIN books :
          /\ books[b].author \in DOMAIN authors
          /\ books[b].owner = NoOwner \/ books[b].owner \in DOMAIN users)
  /\ [][\A p \in Procs :
          /\ (req'[p] # req[p] /\ req'[p].view = "delete_user" /\ users' # users)
               => /\ req'[p].target \notin DOMAIN users'
                  /\ \A b \in DOMAIN books' : books'[b].owner # req'[p].target
                  /\ \A b \in DOMAIN books : books[b].owner = req'[p].target => b \notin DOMAIN books'
          /\ (req'[p] # req[p] /\ req'[p].view = "delete_author" /\ authors' # authors)
               => /\ req'[p].target \notin DOMAIN authors'
                  /\ \A b \in DOMAIN books' : books'[b].author # req'[p].target
                  /\ \A b \in DOMAIN books : books[b].author = req'[p].target => b \notin DOMAIN books']_vars

\* user 1 has been deleted and the Book it owned is gone, while the Book of the
\* pool is still stored
C24_Witness ==
  /\ 1 \notin DOMAIN users
  /\ 2 \notin DOMAIN books
  /\ 1 \in DOMAIN books
  /\ \E p \in Procs : req[p].view = "delete_user" /\ req[p].pc = "done" /\ req[p].target = 1

\* C25: no login is linked to two Users, the login of a User exists, and no two
\* logins have the same username; create_auth_user on a User that has a login
\* creates nothing and returns that login.
C25_IdentityLink ==
  /\ [](/\ \A u, v \in DOMAIN users :
             (users[u].auth_user # NoAuthUser /\ users[u].auth_user = users[v].auth_user)
               => u = v
        /\ \A i, j \in DOMAIN auth_users :
             auth_users[i].username = auth_users[j].username => i = j)
  /\ [][\A p \in Procs :
          (req[p].view = "create_user" /\ req[p].pc = "auth" /\ req'[p] # req[p]
             /\ req[p].user.auth_user # NoAuthUser)
            => /\ DOMAIN auth_users' = DOMAIN auth_users
               /\ users' = users
               /\ seq' = seq
               /\ "Lectores" \in auth_users'[req[p].user.auth_user].groups
               /\ req'[p].resp.msgs[1].level = "success"]_vars

\* create_user has stored a User with the login it asked for, in the group
\* Lectores, after the second call of create_auth_user
C25_Witness ==
  \E p \in Procs, u \in DOMAIN users \ UserIds :
    /\ req[p].view = "create_user" /\ req[p].pc = "done" /\ req[p].target = u
    /\ users[u].auth_user \in DOMAIN auth_users
    /\ auth_users[users[u].auth_user].username = "eva_luna"
    /\ auth_users[users[u].auth_user].groups = {"Lectores"}

\* C30: a register_view that fails leaves no login behind, and one that succeeds
\* has made exactly one login, in the group Lectores, and one User linked to it.
C30_RegistrationAllOrNothing ==
  [][\A p \in Procs :
       (Free(p) /\ req'[p].view = "register_view")
         => IF req'[p].resp.kind = "redirect"
            THEN /\ \E i \in DOMAIN auth_users' \ DOMAIN auth_users :
                      /\ DOMAIN auth_users' = DOMAIN auth_users \cup {i}
                      /\ "Lectores" \in auth_users'[i].groups
                      /\ \E u \in DOMAIN users' \ DOMAIN users :
                           /\ DOMAIN users' = DOMAIN users \cup {u}
                           /\ users'[u].auth_user = i
            ELSE /\ auth_users' = auth_users
                 /\ users' = users]_vars

\* C26: a PDF report carries the unsigned document when the signing raised or
\* returned bytes that are not longer than the document, and the signed bytes
\* only when they are longer.
C26_SigningNonFatal ==
  \A p \in Procs :
    (req[p].view \in {"user_library_pdf", "books_report_pdf"} /\ req[p].pc = "done"
       /\ req[p].resp.kind \notin {"404", "redirect"})
      => LET unsigned == BuildPdf(req[p].resp.data)
             raised == req[p].signing = "init_raises"
             returned == sign_pdf(unsigned, req[p].signing)
         IN /\ req[p].resp.kind = "pdf"
            /\ (raised \/ Len(returned) <= Len(unsigned)) => req[p].resp.content = unsigned
            /\ req[p].resp.content # unsigned
                 => ~raised /\ Len(returned) > Len(unsigned) /\ req[p].resp.content = returned

\* a report answered with the unsigned document after the signer returned fewer
\* bytes than it was given
C26_Witness ==
  \E p \in Procs :
    /\ req[p].view = "user_library_pdf" /\ req[p].pc = "done" /\ req[p].resp.kind = "pdf"
    /\ req[p].signing = "truncated"
    /\ req[p].resp.content = BuildPdf(LibraryOf(req[p].target))
    /\ Len(req[p].resp.content) > 1

\* a search with a query that is not empty
Searched(p) ==
  /\ req[p].view = "search_external_books" /\ req[p].pc = "done"
  /\ req[p].GET.q.kind = "str" /\ strip(req[p].GET.q.str) # ""

\* C27: a search sends the provider a page of at least 1 and a page size within
\* 1..100, 1 and 20 when the parameter is absent or empty; prev is page - 1
\* exactly when page > 1 and next is page + 1 exactly when page * page_size is
\* less than total; a failure of the provider gives an empty result and a warning.
C27_SearchPaging ==
  \A p \in Procs :
    Searched(p) =>
      LET r == req[p]
          size == IF r.GET.page_size \in {Null, Text(""), Text("0")} THEN 20
                  ELSE IF SignedInt(r.GET.page_size.str) > 100 THEN 100
                  ELSE IF SignedInt(r.GET.page_size.str) < 1 THEN 1
                  ELSE SignedInt(r.GET.page_size.str)
      IN /\ r.sent # NoCall
              => /\ r.sent.page >= 1
                 /\ r.sent.limit \in 1..100
                 /\ r.GET.page \in {Null, Text("")} => r.sent.page = 1
                 /\ r.GET.page_size \in {Null, Text("")} => r.sent.limit = 20
         /\ (r.resp.kind = "render" /\ ~r.failed)
              => /\ r.resp.data.page > 1 <=> r.resp.data.prev # Null
                 /\ r.resp.data.prev # Null => r.resp.data.prev = Num(r.resp.data.page - 1)
                 /\ r.resp.data.page * size < r.resp.data.total <=> r.resp.data.next # Null
                 /\ r.resp.data.next # Null => r.resp.data.next = Num(r.resp.data.page + 1)
         /\ r.failed
              => /\ r.resp.kind = "render"
                 /\ r.resp.data.results = <<>>
                 /\ r.resp.data.total = 0
                 /\ r.resp.data.next = Null /\ r.resp.data.prev = Null
                 /\ Len(r.resp.msgs) = 1 /\ r.resp.msgs[1].level = "warning"

\* a search for page -3 with 500 results a page asked the provider for page 1
\* with 100 results, and has a next page and no previous one
C27_Witness ==
  \E p \in Procs :
    /\ Searched(p)
    /\ req[p].GET.page = Text("-3") /\ req[p].GET.page_size = Text("500")
    /\ req[p].sent = [q |-> "dune", page |-> 1, limit |-> 100]
    /\ req[p].resp.data.next = Num(2) /\ req[p].resp.data.prev = Null
    /\ req[p].resp.data.total = 150

C29_TransferKeepsEdits ==
  [][\A p \in Procs :
       (/\ req[p].view \in {"add_books_to_library", "remove_books_from_library"}
        /\ req[p].pc = "save"
        /\ req'[p] # req[p]
        /\ req[p].ids[req[p].i] \in DOMAIN books)
         => LET b == req[p].ids[req[p].i]
            IN books'[b] = [books[b] EXCEPT !.owner = books'[b].owner]]_vars

====
